---- MODULE Spec2Model ----
(***************************************************************************)
(* Model of the bcm-visualizer diagram pipeline: tree construction from    *)
(* the flat node list (core/hierarchy.ts) and the layout engine family     *)
(* (layout/*.ts).  Lengths are pixels.  Every length the model feeds in    *)
(* (text sizes, padding, spacing, minimum sizes) is an even integer, so    *)
(* the centring offsets (a - b) / 2 of the engines are exact integers;     *)
(* aspect ratios are compared exactly by cross-multiplication.             *)
(***************************************************************************)
EXTENDS Integers, Sequences, FiniteSets, TLC

VARIABLES
  input,         \* HierarchyNode[] handed to generateDiagram
  phase,         \* "input" | "built" | "error" | "laid"
  engine,        \* which LayoutEngine subclass was constructed
  opts,          \* this.options (+ styleOptions.leafNodeWidth)
  roots,         \* TreeNode[] returned by buildHierarchy (ids)
  children,      \* node.children, per node id (ordered)
  rootAncestor,  \* node.rootAncestor, per node id
  layout,        \* node.layout, per node id
  cache,         \* PermutationGridLayoutEngine.cache (sizeCache, layoutCache)
  dims,          \* last value returned by getDiagramDimensions
  calls,         \* number of calculateLayout calls made on the forest
  lastOp,        \* the operation that produced this state
  given,         \* the argument of a function called on its own: the item sizes
                 \* handed to an arrangement solver, the options handed to
                 \* createLayoutEngine
  solution       \* what that function returned

vars == <<input, phase, engine, opts, roots, children, rootAncestor, layout, cache, dims,
          calls, lastOp, given, solution>>

-----------------------------------------------------------------------------
(* Bounds of the model *)

MaxNodes == 4     \* nodes of a well-formed input
MaxCalls == 2     \* calculateLayout calls on one forest
MaxInputLen == 3  \* nodes of an arbitrary (possibly malformed) input

-----------------------------------------------------------------------------
(* Small helpers *)

Max(a, b) == IF a >= b THEN a ELSE b
Min(a, b) == IF a <= b THEN a ELSE b
Abs(a) == IF a >= 0 THEN a ELSE 0 - a
CeilDiv(a, b) == (a + b - 1) \div b

\* The statements of the source run in order: Then(v, Op) is Op(v) with v
\* computed before Op is entered (TLC evaluates an operator argument only
\* where the operator first uses it, which nests the evaluations deeply)
Then(v, Op(_)) == CASE v = v -> Op(v)
Then2(a, b, Op(_, _)) == CASE a = a /\ b = b -> Op(a, b)

RECURSIVE SumSeq(_)
SumSeq(s) == IF s = <<>> THEN 0 ELSE Head(s) + SumSeq(Tail(s))

\* Math.max folded over S starting from 0 (new Array(n).fill(0))
MaxOfSet(S) == IF S = {} THEN 0
               ELSE Max(0, CHOOSE e \in S : \A o \in S : o <= e)

-----------------------------------------------------------------------------
(* types/input.ts, types/layout.ts *)

NullParent == 0      \* parent: null
NoId == 0            \* a node whose id is missing (falsy)
Undefined == 0 - 1   \* an unset rootAncestor

NoLayout == [none |-> TRUE]
NoContentArea == [none |-> TRUE]
NoDims == [none |-> TRUE]

(* The text size oracle (utils/textMeasure): the measured width depends on *)
(* the text, the height on the font only.                                  *)
NameWidths == <<238, 20, 100, 20, 60, 100, 140, 10>>
measureText(name) == [width |-> NameWidths[((name - 1) % Len(NameWidths)) + 1], height |-> 20]

InputIds(nodes) == {nodes[i].id : i \in 1..Len(nodes)}

-----------------------------------------------------------------------------
(* core/hierarchy.ts *)

\* validateHierarchyInput: TRUE when it returns, FALSE when it throws
RECURSIVE ValidateFrom(_, _, _)
ValidateFrom(nodes, index, nodeIds) ==
  IF index > Len(nodes) THEN TRUE
  ELSE IF nodes[index].id = NoId THEN FALSE
  ELSE IF nodes[index].id \in nodeIds THEN FALSE
  ELSE ValidateFrom(nodes, index + 1, nodeIds \cup {nodes[index].id})

\* a validation that only rejects the empty list
validateNonEmpty(nodes) == Len(nodes) # 0

validateHierarchyInput(nodes) ==
  IF Len(nodes) = 0 THEN FALSE ELSE ValidateFrom(nodes, 1, {})

\* nodeMap.get(id).data.parent: Map.set keeps the last entry of an id
nodeMapParent(nodes, id) ==
  LET last == CHOOSE i \in 1..Len(nodes) :
                 /\ nodes[i].id = id
                 /\ \A j \in 1..Len(nodes) : nodes[j].id = id => j <= i
  IN nodes[last].parent

\* detectCycle: err = it threw; visiting/visited are the closure's two sets
RECURSIVE detectCycle(_, _, _, _)
detectCycle(nodes, nodeId, visiting, visited) ==
  IF nodeId \in visited THEN [err |-> FALSE, visiting |-> visiting, visited |-> visited]
  ELSE IF nodeId \in visiting THEN [err |-> TRUE, visiting |-> visiting, visited |-> visited]
  ELSE IF nodeId \notin InputIds(nodes)
       THEN [err |-> TRUE, visiting |-> visiting \cup {nodeId}, visited |-> visited]
  ELSE LET parent == nodeMapParent(nodes, nodeId)
       IN IF parent # NullParent /\ parent \notin visited
          THEN detectCycle(nodes, parent, visiting \cup {nodeId}, visited)
          ELSE [err |-> FALSE, visiting |-> visiting, visited |-> visited \cup {nodeId}]

\* the forEach of buildHierarchy from position index on
RECURSIVE BuildFrom(_, _, _)
BuildFrom(nodes, index, st) ==
  IF index > Len(nodes) THEN st
  ELSE
    LET node == nodes[index]
        dc == IF node.id \in st.visited
              THEN [err |-> FALSE, visiting |-> st.visiting, visited |-> st.visited]
              ELSE detectCycle(nodes, node.id, st.visiting, st.visited)
    IN IF dc.err THEN [st EXCEPT !.err = TRUE]
       ELSE IF node.parent = NullParent
       THEN BuildFrom(nodes, index + 1,
              [st EXCEPT !.visiting = dc.visiting, !.visited = dc.visited,
                         !.roots = Append(@, node.id),
                         !.rootAncestor[node.id] = node.id])
       ELSE IF node.parent \notin InputIds(nodes) THEN [st EXCEPT !.err = TRUE]
       ELSE BuildFrom(nodes, index + 1,
              [st EXCEPT !.visiting = dc.visiting, !.visited = dc.visited,
                         !.children[node.parent] = Append(@, node.id),
                         !.rootAncestor[node.id] = st.rootAncestor[node.parent]])

buildHierarchy(nodes) ==
  BuildFrom(nodes, 1,
    [err |-> FALSE, visiting |-> {}, visited |-> {}, roots |-> <<>>,
     children |-> [id \in InputIds(nodes) |-> <<>>],
     rootAncestor |-> [id \in InputIds(nodes) |-> Undefined]])

-----------------------------------------------------------------------------
(* The forest as the engines see it *)

NodeIds == DOMAIN children
data(id) == input[CHOOSE i \in 1..Len(input) : input[i].id = id]
titleMetrics(id) == measureText(data(id).name)
isLeaf(id) == Len(children[id]) = 0

Range(s) == {s[i] : i \in 1..Len(s)}

RECURSIVE Subtree(_)
Subtree(id) == {id} \cup UNION {Subtree(c) : c \in Range(children[id])}

Box(x, y, width, height, contentArea) ==
  [x |-> x, y |-> y, width |-> width, height |-> height, contentArea |-> contentArea]
Rect(x, y, width, height) == [x |-> x, y |-> y, width |-> width, height |-> height]

\* the leaf width rule shared by the grid-family engines
leafWidth(id) ==
  IF opts.leafNodeWidth > 0 THEN opts.leafNodeWidth
  ELSE Max(titleMetrics(id).width + opts.padding * 2, opts.minNodeWidth)

\* max width per column / max height per row of a row-major grid of numCols columns
columnWidthsOf(items, numCols, floor) ==
  [c \in 1..numCols |->
     MaxOfSet({Max(items[i].width, floor) : i \in {j \in 1..Len(items) : (j - 1) % numCols = c - 1}})]
rowHeightsOf(items, numCols, floor) ==
  [r \in 1..CeilDiv(Len(items), numCols) |->
     MaxOfSet({Max(items[i].height, floor) : i \in {j \in 1..Len(items) : (j - 1) \div numCols = r - 1}})]

\* a cumulative start that leaves out the gaps
RECURSIVE startOfNoSpacing(_, _)
startOfNoSpacing(sizes, k) ==
  IF k = 1 THEN 0 ELSE startOfNoSpacing(sizes, k - 1) + sizes[k - 1]

\* cumulative start of cell k: sum of the preceding sizes plus spacing each
RECURSIVE startOf(_, _)
startOf(sizes, k) == IF k = 1 THEN 0 ELSE startOf(sizes, k - 1) + sizes[k - 1] + opts.spacing

-----------------------------------------------------------------------------
(* GridLayoutEngine *)

RECURSIVE calculateNodeLayout(_, _, _, _), GridChildrenAt(_, _, _, _)

\* calculateNodeLayout(child, pos[i].x, pos[i].y) for the children i, i+1, ...
GridChildrenAt(L, kids, i, pos) ==
  IF i > Len(kids) THEN L
  ELSE LET next(L1) == GridChildrenAt(L1, kids, i + 1, pos)
       IN Then(calculateNodeLayout(L, kids[i], pos[i].x, pos[i].y), next)

calculateNodeLayout(L, id, x, y) ==
  LET titleHeight == titleMetrics(id).height + opts.padding * 2
      kids == children[id]
      n == Len(kids)
      columns == opts.columns
      rows == CeilDiv(n, columns)
      \* the parent's box and the children at their cells
      place(L1, columnWidths, rowHeights) ==
        LET totalChildWidth == SumSeq(columnWidths) + (columns - 1) * opts.spacing
            totalChildHeight == SumSeq(rowHeights) + (rows - 1) * opts.spacing
            width == Max(totalChildWidth + opts.padding * 2,
                         Max(titleMetrics(id).width + opts.padding * 2, opts.minNodeWidth))
            height == titleHeight + totalChildHeight + opts.padding
            contentArea == Rect(x + opts.padding, y + titleHeight,
                                width - opts.padding * 2, height - titleHeight - opts.padding)
            pos == [i \in 1..n |->
                      [x |-> contentArea.x + startOf(columnWidths, ((i - 1) % columns) + 1),
                       y |-> contentArea.y + startOf(rowHeights, ((i - 1) \div columns) + 1)]]
            at(L2, p) == GridChildrenAt(L2, kids, 1, p)
        IN Then2([L1 EXCEPT ![id] = Box(x, y, width, height, contentArea)], pos, at)
      \* L1: the children pre-calculated at dummy positions
      arrange(L1) ==
        LET childSizes == [i \in 1..n |-> [width |-> L1[kids[i]].width, height |-> L1[kids[i]].height]]
            measured(columnWidths, rowHeights) == place(L1, columnWidths, rowHeights)
        IN Then2(columnWidthsOf(childSizes, columns, 0), rowHeightsOf(childSizes, columns, 0), measured)
  IN IF isLeaf(id)
     THEN LET width == leafWidth(id)
              height == Max(titleHeight, opts.minNodeHeight)
          IN [L EXCEPT ![id] = Box(x, y, width, height,
                 Rect(x + opts.padding, y + titleHeight,
                      width - opts.padding * 2, height - titleHeight - opts.padding))]
     ELSE Then(GridChildrenAt(L, kids, 1, [i \in 1..n |-> [x |-> 0, y |-> 0]]), arrange)

\* second pass of GridLayoutEngine.calculateLayout: the roots left to right
RECURSIVE GridPlaceRoots(_, _, _)
GridPlaceRoots(L, i, startX) ==
  IF i > Len(roots) THEN L
  ELSE LET next(L1) ==
             GridPlaceRoots(L1, i + 1, L1[roots[i]].x + L1[roots[i]].width + opts.spacing)
       IN Then(calculateNodeLayout(L, roots[i], startX, opts.padding), next)

GridCalculateLayout(L) ==
  LET place(L1) == GridPlaceRoots(L1, 1, opts.padding)
  IN Then(GridChildrenAt(L, roots, 1, [i \in 1..Len(roots) |-> [x |-> 0, y |-> 0]]), place)

\* offsetNodeLayout applied to the whole forest
offsetForest(L, dx, dy, withContentArea) ==
  [id \in DOMAIN L |->
     IF L[id] = NoLayout THEN L[id]
     ELSE [L[id] EXCEPT
             !.x = @ + dx, !.y = @ + dy,
             !.contentArea = IF withContentArea /\ @ # NoContentArea
                             THEN [@ EXCEPT !.x = @ + dx, !.y = @ + dy] ELSE @]]

laidOut(L) == {id \in DOMAIN L : L[id] # NoLayout}
minXOf(L) == CHOOSE v \in {L[id].x : id \in laidOut(L)} : \A id \in laidOut(L) : v <= L[id].x
minYOf(L) == CHOOSE v \in {L[id].y : id \in laidOut(L)} : \A id \in laidOut(L) : v <= L[id].y
maxXOf(L) == CHOOSE v \in {L[id].x + L[id].width : id \in laidOut(L)} :
                \A id \in laidOut(L) : L[id].x + L[id].width <= v
maxYOf(L) == CHOOSE v \in {L[id].y + L[id].height : id \in laidOut(L)} :
                \A id \in laidOut(L) : L[id].y + L[id].height <= v

\* GridLayoutEngine.getDiagramDimensions: the returned size and the shifted layouts
GridGetDiagramDimensions(L) ==
  IF laidOut(L) = {} THEN [dims |-> [width |-> 0, height |-> 0], layout |-> L]
  ELSE LET finalWidth == maxXOf(L) - minXOf(L) + opts.padding * 2
           finalHeight == maxYOf(L) - minYOf(L) + opts.padding * 2
       IN [dims |-> [width |-> finalWidth, height |-> finalHeight],
           layout |-> IF finalWidth > 0 \/ finalHeight > 0
                      THEN offsetForest(L, opts.padding - minXOf(L), opts.padding - minYOf(L), TRUE)
                      ELSE L]

-----------------------------------------------------------------------------
(* The grid arrangement solver: findBestGridArrangement of                  *)
(* AspectRatioGridLayoutEngine and FlowGridAspectLayout,                    *)
(* findBestPackingArrangement of PackingLayoutEngine.  A target ratio is a  *)
(* fraction num/den; |W/H - num/den| is DiffNum(W, H, t) / (H * den).       *)

DiffNum(W, H, t) == Abs(W * t.den - t.num * H)

\* a total width that leaves out the gaps between the columns
gridTotalWidthNoSpacing(items, numCols, floor) ==
  SumSeq(columnWidthsOf(items, numCols, floor))

gridTotalWidth(items, numCols, floor) ==
  SumSeq(columnWidthsOf(items, numCols, floor)) + Max(0, numCols - 1) * opts.spacing
gridTotalHeight(items, numCols, floor) ==
  SumSeq(rowHeightsOf(items, numCols, floor)) + Max(0, CeilDiv(Len(items), numCols) - 1) * opts.spacing

arrangementOf(items, numCols, floor) ==
  [columns |-> numCols,
   columnWidths |-> columnWidthsOf(items, numCols, floor.w),
   rowHeights |-> rowHeightsOf(items, numCols, floor.h),
   totalWidth |-> gridTotalWidth(items, numCols, floor.w),
   totalHeight |-> gridTotalHeight(items, numCols, floor.h)]

NoConfig == [columns |-> 0, columnWidths |-> <<>>, rowHeights |-> <<>>,
             totalWidth |-> 0, totalHeight |-> 0]

\* the comparison the other way round: the candidate is farther from the target
fartherThanBest(current, best, t) ==
  DiffNum(current.totalWidth, current.totalHeight, t) * best.totalHeight
    > DiffNum(best.totalWidth, best.totalHeight, t) * current.totalHeight

\* aspectRatioDiff < minAspectRatioDiff, minAspectRatioDiff being that of best
closerThanBest(current, best, t) ==
  DiffNum(current.totalWidth, current.totalHeight, t) * best.totalHeight
    < DiffNum(best.totalWidth, best.totalHeight, t) * current.totalHeight

\* Math.abs(aspectRatioDiff - minAspectRatioDiff) < 0.1
withinTolerance(current, best, t) ==
  Abs(DiffNum(current.totalWidth, current.totalHeight, t) * best.totalHeight
      - DiffNum(best.totalWidth, best.totalHeight, t) * current.totalHeight) * 10
    < current.totalHeight * best.totalHeight * t.den

\* the loop without its guard: a candidate of total height 0 is rated too
RECURSIVE bestArrangementFromNoSkip(_, _, _, _, _, _)
bestArrangementFromNoSkip(items, t, numCols, best, floor, tolerance) ==
  IF numCols > Len(items) THEN best
  ELSE LET pick(current) ==
             IF best = NoConfig \/ closerThanBest(current, best, t) THEN current ELSE best
           next(picked) ==
             bestArrangementFromNoSkip(items, t, numCols + 1, picked, floor, tolerance)
       IN Then(pick(arrangementOf(items, numCols, floor)), next)

\* the loop with a tolerance branch that prefers more columns
RECURSIVE bestArrangementFromMoreColumns(_, _, _, _, _, _)
bestArrangementFromMoreColumns(items, t, numCols, best, floor, tolerance) ==
  IF numCols > Len(items) THEN best
  ELSE LET pick(current) ==
             IF current.totalHeight = 0 THEN best
             ELSE IF best = NoConfig \/ closerThanBest(current, best, t) THEN current
             ELSE IF tolerance /\ withinTolerance(current, best, t) /\ numCols > best.columns
             THEN current
             ELSE best
           next(picked) ==
             bestArrangementFromMoreColumns(items, t, numCols + 1, picked, floor, tolerance)
       IN Then(pick(arrangementOf(items, numCols, floor)), next)

\* the loop over numCols = 1..n; best is NoConfig while bestConfig is null
RECURSIVE bestArrangementFrom(_, _, _, _, _, _)
bestArrangementFrom(items, t, numCols, best, floor, tolerance) ==
  IF numCols > Len(items) THEN best
  ELSE LET pick(current) ==
             IF current.totalHeight = 0 THEN best
             ELSE IF best = NoConfig \/ closerThanBest(current, best, t) THEN current
             ELSE IF tolerance /\ withinTolerance(current, best, t) /\ numCols < best.columns
             THEN current
             ELSE best
           next(picked) == bestArrangementFrom(items, t, numCols + 1, picked, floor, tolerance)
       IN Then(pick(arrangementOf(items, numCols, floor)), next)

CeilSqrt(n) == CHOOSE k \in 0..n : k * k >= n /\ (k = 0 \/ (k - 1) * (k - 1) < n)

findBestArrangement(items, t, floor, tolerance) ==
  IF Len(items) = 0 THEN NoConfig
  ELSE LET orFallback(found) ==
             IF found # NoConfig THEN found
             ELSE arrangementOf(items,
                                IF tolerance THEN Max(1, CeilSqrt(Len(items)))
                                ELSE CeilSqrt(Len(items)),
                                floor)
       IN Then(bestArrangementFrom(items, t, 1, NoConfig, floor, tolerance), orFallback)

NoFloor == [w |-> 0, h |-> 0]
MinFloor == [w |-> opts.minNodeWidth, h |-> opts.minNodeHeight]

findBestGridArrangement(items, t) == findBestArrangement(items, t, NoFloor, FALSE)
flowFindBestGridArrangement(items, t) == findBestArrangement(items, t, MinFloor, FALSE)
findBestPackingArrangement(items, t) == findBestArrangement(items, t, NoFloor, TRUE)

\* cell positions that leave out the row offset: every row starts at startY
calculateGridPositionsOneRow(gridConfig, itemCount, startX, startY) ==
  IF gridConfig.columns = 0 \/ itemCount = 0 THEN <<>>
  ELSE [i \in 1..itemCount |->
          [x |-> startX + startOf(gridConfig.columnWidths, ((i - 1) % gridConfig.columns) + 1),
           y |-> startY]]

\* calculateGridPositions / calculatePackedPositions: top-left corner of every cell
calculateGridPositions(gridConfig, itemCount, startX, startY) ==
  IF gridConfig.columns = 0 \/ itemCount = 0 THEN <<>>
  ELSE [i \in 1..itemCount |->
          [x |-> startX + startOf(gridConfig.columnWidths, ((i - 1) % gridConfig.columns) + 1),
           y |-> startY + startOf(gridConfig.rowHeights, ((i - 1) \div gridConfig.columns) + 1)]]

sizesOf(L, ids) == [i \in 1..Len(ids) |-> [width |-> L[ids[i]].width, height |-> L[ids[i]].height]]

-----------------------------------------------------------------------------
(* AspectRatioGridLayoutEngine *)

RECURSIVE aspectCalculateNodeLayoutRecursive(_, _, _, _, _), AspectSizeChildren(_, _, _, _),
          AspectPlaceChildren(_, _, _, _)

\* step 3a: the children that are (re)sized at the dummy position
AspectSizeChildren(L, kids, i, isInitialCalculation) ==
  IF i > Len(kids) THEN L
  ELSE LET next(L1) == AspectSizeChildren(L1, kids, i + 1, isInitialCalculation)
       IN IF isInitialCalculation \/ L[kids[i]] = NoLayout
          THEN Then(aspectCalculateNodeLayoutRecursive(L, kids[i], 0, 0, isInitialCalculation),
                    next)
          ELSE next(L)

\* step 3e, and pass 2 over the roots: every node at its final position
AspectPlaceChildren(L, kids, i, pos) ==
  IF i > Len(kids) THEN L
  ELSE LET next(L1) == AspectPlaceChildren(L1, kids, i + 1, pos)
       IN Then(aspectCalculateNodeLayoutRecursive(L, kids[i], pos[i].x, pos[i].y, FALSE), next)

aspectCalculateNodeLayoutRecursive(L, id, x, y, isInitialCalculation) ==
  LET titleHeight == titleMetrics(id).height + opts.padding * 2
      kids == children[id]
      \* steps 3c to 3e, L1 holding the children's sizes and best their arrangement
      place(L1, best) ==
        LET requiredWidth == best.totalWidth + opts.padding * 2
            requiredHeight == titleHeight + best.totalHeight + opts.padding
            finalHeight == requiredHeight + opts.padding
            width == Max(requiredWidth,
                         Max(titleMetrics(id).width + opts.padding * 2, opts.minNodeWidth))
            height == Max(finalHeight, opts.minNodeHeight)
            contentArea == Rect(x + opts.padding, y + titleHeight,
                                width - opts.padding * 2, height - titleHeight - opts.padding)
            childrenStartX == contentArea.x + Max(0, (contentArea.width - best.totalWidth) \div 2)
            childrenStartY == contentArea.y
            L2 == IF ~isInitialCalculation \/ L1[id] = NoLayout
                  THEN [L1 EXCEPT ![id] = Box(x, y, width, height, contentArea)]
                  ELSE [L1 EXCEPT ![id].width = width, ![id].height = height,
                                  ![id].contentArea = [contentArea EXCEPT !.x = opts.padding,
                                                                          !.y = titleHeight]]
            at(L3, pos) == AspectPlaceChildren(L3, kids, 1, pos)
        IN IF isInitialCalculation THEN L2
           ELSE Then2(L2, calculateGridPositions(best, Len(kids), childrenStartX,
                                                 childrenStartY), at)
      \* step 3b
      arrange(L1) ==
        LET with(best) == place(L1, best)
        IN Then(findBestGridArrangement(sizesOf(L1, kids), opts.targetAspectRatio), with)
  IN IF isLeaf(id)
     THEN [L EXCEPT ![id] = Box(x, y, leafWidth(id), Max(titleHeight, opts.minNodeHeight),
                                Rect(x + opts.padding, y + titleHeight, 0, 0))]
     ELSE Then(AspectSizeChildren(L, kids, 1, isInitialCalculation), arrange)

AspectCalculateLayout(L) ==
  LET place(sized) ==
        LET at(pos) == AspectPlaceChildren(sized, roots, 1, pos)
        IN IF Len(roots) = 1
           THEN aspectCalculateNodeLayoutRecursive(sized, roots[1], 0, 0, FALSE)
           ELSE Then(calculateGridPositions(
                       findBestGridArrangement(sizesOf(sized, roots), opts.targetAspectRatio),
                       Len(roots), 0, 0), at)
  IN Then(AspectSizeChildren(L, roots, 1, TRUE), place)

\* dimensions taken from the largest node size, positions left out
maxSizeDimensions(L) ==
  [width |-> MaxOfSet({L[id].width : id \in laidOut(L)}),
   height |-> MaxOfSet({L[id].height : id \in laidOut(L)})]

\* getDiagramDimensions of the AspectRatioGrid, FlowGrid and Packing engines
maxBoundsDimensions(L) ==
  [width |-> MaxOfSet({L[id].x + L[id].width : id \in laidOut(L)}),
   height |-> MaxOfSet({L[id].y + L[id].height : id \in laidOut(L)})]

AspectGetDiagramDimensions(L) ==
  IF Len(roots) = 0 \/ L[roots[1]] = NoLayout THEN [width |-> 0, height |-> 0]
  ELSE maxBoundsDimensions(L)

-----------------------------------------------------------------------------
(* FlowGridAspectLayout *)

\* an update that adds the new position to the stored one
flowUpdateLayoutAddPosition(old, nodeX, nodeY, finalWidth, finalHeight, contentArea) ==
  IF old = NoLayout THEN Box(nodeX, nodeY, finalWidth, finalHeight, contentArea)
  ELSE [old EXCEPT !.x = @ + nodeX, !.y = @ + nodeY, !.width = finalWidth,
                   !.height = finalHeight, !.contentArea = contentArea]

\* step 3d: create the layout object, or update the existing one field by field
flowUpdateLayout(old, nodeX, nodeY, finalWidth, finalHeight, contentArea) ==
  IF old = NoLayout THEN Box(nodeX, nodeY, finalWidth, finalHeight, contentArea)
  ELSE [old EXCEPT !.x = nodeX, !.y = nodeY, !.width = finalWidth,
                   !.height = finalHeight, !.contentArea = contentArea]

RECURSIVE flowCalculateNodeLayoutRecursive(_, _, _, _, _), FlowSizeChildren(_, _, _, _),
          FlowPlaceChildren(_, _, _, _)

FlowSizeChildren(L, kids, i, isInitialCalculation) ==
  IF i > Len(kids) THEN L
  ELSE LET next(L1) == FlowSizeChildren(L1, kids, i + 1, isInitialCalculation)
       IN IF isInitialCalculation \/ L[kids[i]] = NoLayout
          THEN Then(flowCalculateNodeLayoutRecursive(L, kids[i], 0, 0, TRUE), next)
          ELSE next(L)

FlowPlaceChildren(L, kids, i, pos) ==
  IF i > Len(kids) THEN L
  ELSE LET next(L1) == FlowPlaceChildren(L1, kids, i + 1, pos)
       IN Then(flowCalculateNodeLayoutRecursive(L, kids[i], pos[i].x, pos[i].y, FALSE), next)

flowCalculateNodeLayoutRecursive(L, id, x, y, isInitialCalculation) ==
  LET titleAreaHeight == titleMetrics(id).height + opts.padding * 2
      titleAreaWidth == titleMetrics(id).width + opts.padding * 2
      nodeX == IF isInitialCalculation THEN 0 ELSE x
      nodeY == IF isInitialCalculation THEN 0 ELSE y
      kids == children[id]
      \* steps 3c to 3e, L1 holding the children's sizes and best their arrangement
      place(L1, best) ==
        LET requiredWidth == best.totalWidth + opts.padding * 2
            finalWidth == Max(requiredWidth, Max(titleAreaWidth, opts.minNodeWidth))
            requiredHeight == titleMetrics(id).height + opts.padding + best.totalHeight + opts.padding
            finalHeight == Max(requiredHeight, opts.minNodeHeight)
            contentArea ==
              Rect(nodeX + opts.padding,
                   nodeY + titleMetrics(id).height + opts.padding * 2,
                   finalWidth - opts.padding * 2,
                   finalHeight - (titleMetrics(id).height + opts.padding * 2) - opts.padding)
            L2 == [L1 EXCEPT ![id] =
                     flowUpdateLayout(@, nodeX, nodeY, finalWidth, finalHeight, contentArea)]
            childrenStartX == contentArea.x + Max(0, (contentArea.width - best.totalWidth) \div 2)
            childrenStartY == contentArea.y + Max(0, (contentArea.height - best.totalHeight) \div 2)
            at(L3, pos) == FlowPlaceChildren(L3, kids, 1, pos)
        IN IF isInitialCalculation THEN L2
           ELSE Then2(L2, calculateGridPositions(best, Len(kids), childrenStartX,
                                                 childrenStartY), at)
      \* step 3b
      arrange(L1) ==
        LET with(best) == place(L1, best)
        IN Then(flowFindBestGridArrangement(sizesOf(L1, kids), opts.targetAspectRatio), with)
  IN IF isLeaf(id)
     THEN LET width == IF opts.leafNodeWidth > 0 THEN opts.leafNodeWidth
                       ELSE Max(titleAreaWidth, opts.minNodeWidth)
              height == Max(titleAreaHeight, opts.minNodeHeight)
          IN [L EXCEPT ![id] = Box(nodeX, nodeY, width, height,
                 Rect(nodeX + opts.padding, nodeY + opts.padding,
                      width - opts.padding * 2, height - opts.padding * 2))]
     ELSE Then(FlowSizeChildren(L, kids, 1, isInitialCalculation), arrange)

FlowCalculateLayout(L) ==
  LET place(sized) ==
        LET at(pos) == FlowPlaceChildren(sized, roots, 1, pos)
        IN Then(IF Len(roots) = 1 THEN <<[x |-> 0, y |-> 0]>>
                ELSE calculateGridPositions(
                       flowFindBestGridArrangement(sizesOf(sized, roots),
                                                   opts.targetAspectRatio),
                       Len(roots), 0, 0), at)
  IN Then(FlowSizeChildren(L, roots, 1, TRUE), place)

FlowGetDiagramDimensions(L) == maxBoundsDimensions(L)

-----------------------------------------------------------------------------
(* PackingLayoutEngine *)

\* measureTextWithWrapping: labels are single words, so the loop never
\* breaks a line: one line as wide as the label, 1.2 line heights high
measureTextWithWrapping(id) ==
  [width |-> titleMetrics(id).width, height |-> (1 * titleMetrics(id).height * 12) \div 10]

RECURSIVE calculateNodeSizeRecursive(_, _), PackSizeChildren(_, _, _),
          packCalculateNodeLayoutRecursive(_, _, _, _), PackPlaceChildren(_, _, _, _, _, _)

PackSizeChildren(L, kids, i) ==
  IF i > Len(kids) THEN L
  ELSE LET next(L1) == PackSizeChildren(L1, kids, i + 1)
       IN Then(calculateNodeSizeRecursive(L, kids[i]), next)

\* pass 1
calculateNodeSizeRecursive(L, id) ==
  LET nodePadding == opts.padding
      kids == children[id]
      \* the parent's size around the packed children
      enclose(L1, best) ==
        LET titleHeight == titleMetrics(id).height + nodePadding
            requiredWidth == Max(titleMetrics(id).width + 2 * nodePadding,
                                 best.totalWidth + 2 * nodePadding)
            requiredHeight == titleHeight + best.totalHeight + nodePadding * 2
            width == Max(opts.minNodeWidth, requiredWidth)
            height == Max(opts.minNodeHeight, requiredHeight)
        IN [L1 EXCEPT ![id] = Box(0, 0, width, height,
               Rect(nodePadding, titleHeight + nodePadding,
                    width - 2 * nodePadding, height - titleHeight - 2 * nodePadding))]
      arrange(L1) ==
        LET with(best) == enclose(L1, best)
        IN Then(findBestPackingArrangement(sizesOf(L1, kids), [num |-> 1, den |-> 1]), with)
  IN IF isLeaf(id)
     THEN LET textMetrics == measureTextWithWrapping(id)
              width == Max(opts.minNodeWidth, textMetrics.width + 2 * nodePadding)
              height == Max(opts.minNodeHeight, textMetrics.height + 2 * nodePadding)
          IN [L EXCEPT ![id] = Box(0, 0, width, height,
                 Rect(nodePadding, nodePadding, width - 2 * nodePadding, height - 2 * nodePadding))]
     ELSE Then(PackSizeChildren(L, kids, 1), arrange)

PackPlaceChildren(L, kids, i, pos, offsetX, offsetY) ==
  IF i > Len(kids) THEN L
  ELSE LET next(L1) == PackPlaceChildren(L1, kids, i + 1, pos, offsetX, offsetY)
       IN Then(packCalculateNodeLayoutRecursive(L, kids[i], pos[i].x + offsetX,
                                                pos[i].y + offsetY), next)

\* pass 2
packCalculateNodeLayoutRecursive(L, id, x, y) ==
  LET kids == children[id]
      place(L1, parentContentArea, arrangement) ==
        LET at(pos) ==
              PackPlaceChildren(L1, kids, 1, pos,
                Max(0, (parentContentArea.width - arrangement.totalWidth) \div 2),
                Max(0, (parentContentArea.height - arrangement.totalHeight) \div 2))
        IN Then(calculateGridPositions(arrangement, Len(kids),
                                       x + parentContentArea.x, y + parentContentArea.y), at)
      \* the arrangement is solved again, the content area's ratio being the target
      arrange(L1, parentContentArea) ==
        LET with(arrangement) == place(L1, parentContentArea, arrangement)
        IN Then(findBestPackingArrangement(sizesOf(L1, kids),
                  [num |-> parentContentArea.width,
                   den |-> IF parentContentArea.height = 0 THEN 1
                           ELSE parentContentArea.height]), with)
      moved(L1) == IF isLeaf(id) THEN L1 ELSE arrange(L1, L1[id].contentArea)
      position(L0) == Then([L0 EXCEPT ![id].x = x, ![id].y = y], moved)
  IN IF L[id] = NoLayout THEN Then(calculateNodeSizeRecursive(L, id), position)
     ELSE position(L)

PackingCalculateLayout(L) ==
  LET place(sized) ==
        LET at(pos) == PackPlaceChildren(sized, roots, 1, pos, 0, 0)
        IN IF Len(roots) = 1 THEN packCalculateNodeLayoutRecursive(sized, roots[1], 0, 0)
           ELSE Then(calculateGridPositions(
                       findBestPackingArrangement(sizesOf(sized, roots),
                                                  opts.targetAspectRatio),
                       Len(roots), 0, 0), at)
  IN Then(PackSizeChildren(L, roots, 1), place)

PackingGetDiagramDimensions(L) == maxBoundsDimensions(L)

-----------------------------------------------------------------------------
(* PermutationGridLayoutEngine.  The engine state S threaded through the   *)
(* recursion is [L: layouts, ch: node.children, sc: LayoutCache.sizeCache, *)
(* lc: LayoutCache.layoutCache].  The settings hash is constant for one    *)
(* engine instance, so cache keys are the node id and the child id list.   *)
(* A layout's deviation (ratio - target)^2 is kept as its width and height *)
(* and compared exactly; two deviations count as "very close" when equal.  *)

titleSpacing == 20

WorstLayout(childCount) ==
  [infinite |-> TRUE, rows |-> 1, cols |-> childCount, width |-> 0, height |-> 0, positions |-> <<>>]

permTargetAspectRatio == opts.targetAspectRatio

\* a comparison by area alone, whatever the deviations
isBetterLayoutByArea(a, b) ==
  IF b.infinite THEN TRUE ELSE a.width * a.height < b.width * b.height

\* a comparison that also prefers the later of two equally good layouts
isBetterLayoutOrEqual(a, b) ==
  IF b.infinite THEN TRUE
  ELSE DiffNum(a.width, a.height, permTargetAspectRatio) * b.height
         <= DiffNum(b.width, b.height, permTargetAspectRatio) * a.height

isBetterLayout(a, b) ==
  IF b.infinite THEN TRUE
  ELSE IF DiffNum(a.width, a.height, permTargetAspectRatio) * b.height
            < DiffNum(b.width, b.height, permTargetAspectRatio) * a.height THEN TRUE
  ELSE IF DiffNum(a.width, a.height, permTargetAspectRatio) * b.height
            = DiffNum(b.width, b.height, permTargetAspectRatio) * a.height
       THEN a.width * a.height < b.width * b.height
  ELSE FALSE

\* x offset of item idx inside its row: the widths of the items before it
RECURSIVE rowOffset(_, _, _)
rowOffset(permSizes, idx, first) ==
  IF first >= idx THEN 0
  ELSE permSizes[first].width + opts.spacing + rowOffset(permSizes, idx, first + 1)

\* the body of the loop of tryLayoutForPermutation for one value of cols
gridLayoutFor(permSizes, cols) ==
  LET childCount == Len(permSizes)
      rows == CeilDiv(childCount, cols)
      rowHeights == rowHeightsOf(permSizes, cols, 0)
      colWidths == columnWidthsOf(permSizes, cols, 0)
      gridWidth == SumSeq(colWidths) + (cols - 1) * opts.spacing
      gridHeight == SumSeq(rowHeights) + (rows - 1) * opts.spacing
  IN [infinite |-> FALSE, rows |-> rows, cols |-> cols,
      width |-> gridWidth + 2 * opts.padding,
      height |-> gridHeight + opts.padding + titleSpacing + opts.padding,
      positions |->
        [i \in 1..childCount |->
           [x |-> opts.padding + rowOffset(permSizes, i, ((i - 1) \div cols) * cols + 1),
            y |-> opts.padding + titleSpacing
                    + startOf(rowHeights, ((i - 1) \div cols) + 1),
            width |-> permSizes[i].width,
            height |-> permSizes[i].height]]]

\* colsOptions of every rowsTentative, in the order the loops visit them
colsOptionsOf(childCount) ==
  [j \in 1..(2 * childCount) |->
     LET rowsTentative == (j + 1) \div 2
     IN IF j % 2 = 1 THEN CeilDiv(childCount, rowsTentative)
        ELSE (2 * childCount + rowsTentative) \div (2 * rowsTentative)]

\* the loop over colsOptions[first..last], entered with bestLayout; a range of
\* more than one option is run as its two halves, one after the other
RECURSIVE tryColsFrom(_, _, _, _, _)
tryColsFrom(permSizes, colsOptions, first, last, bestLayout) ==
  IF first > last THEN bestLayout
  ELSE IF first < last
  THEN LET rest(kept) ==
             tryColsFrom(permSizes, colsOptions, (first + last) \div 2 + 1, last, kept)
       IN Then(tryColsFrom(permSizes, colsOptions, first, (first + last) \div 2, bestLayout),
               rest)
  ELSE IF colsOptions[first] <= 0 THEN bestLayout
  ELSE LET keep(currentLayout) ==
             IF isBetterLayout(currentLayout, bestLayout) THEN currentLayout ELSE bestLayout
       IN keep(gridLayoutFor(permSizes, colsOptions[first]))

tryLayoutForPermutation(permSizes, childCount) ==
  tryColsFrom(permSizes, colsOptionsOf(childCount), 1, 2 * childCount, WorstLayout(childCount))

\* a swap that loses the element at i
swapOverwrite(arr, i, j) == [arr EXCEPT ![i] = arr[j]]

swap(arr, i, j) == [arr EXCEPT ![i] = arr[j], ![j] = arr[i]]

RECURSIVE permute(_, _), permuteFrom(_, _, _)
permute(arr, start) ==
  IF start = Len(arr) THEN <<arr>> ELSE permuteFrom(arr, start, start)
permuteFrom(arr, start, i) ==
  IF i > Len(arr) THEN <<>>
  ELSE permute(swap(arr, start, i), start + 1) \o permuteFrom(arr, start, i + 1)

generatePermutations(n) == permute([i \in 1..n |-> i], 1)

\* the loop over permutations[first..last], entered with best, run in halves
\* like the loop over the column counts
RECURSIVE tryPermutationsFrom(_, _, _, _, _)
tryPermutationsFrom(childSizes, permutations, first, last, best) ==
  IF first > last THEN best
  ELSE IF first < last
  THEN LET rest(kept) ==
             tryPermutationsFrom(childSizes, permutations, (first + last) \div 2 + 1, last, kept)
       IN Then(tryPermutationsFrom(childSizes, permutations, first, (first + last) \div 2, best),
               rest)
  ELSE LET perm == permutations[first]
           keep(candidateLayout) ==
             IF isBetterLayout(candidateLayout, best.layout)
             THEN [layout |-> candidateLayout, permutation |-> perm] ELSE best
       IN keep(tryLayoutForPermutation([i \in 1..Len(perm) |-> childSizes[perm[i]]],
                                       Len(perm)))

findBestLayout(childSizes, childCount) ==
  LET start == [layout |-> WorstLayout(childCount), permutation |-> [i \in 1..childCount |-> i]]
      keep(candidateLayout) ==
        IF isBetterLayout(candidateLayout, start.layout)
        THEN [start EXCEPT !.layout = candidateLayout] ELSE start
      tryAll(permutations) ==
        tryPermutationsFrom(childSizes, permutations, 1, Len(permutations), start)
  IN IF childCount <= opts.maxPermutationChildren
     THEN Then(generatePermutations(childCount), tryAll)
     ELSE keep(tryLayoutForPermutation(childSizes, childCount))

calculateLeafNodeSize(id) ==
  [x |-> 0, y |-> 0, width |-> leafWidth(id),
   height |-> Max(titleMetrics(id).height + opts.padding * 2, opts.minNodeHeight)]

RECURSIVE calculateNodeSize(_, _, _), childSizesFrom(_, _, _, _)

\* node.children.map(child => cached size, or computed and cached):
\* the result is [sc: the size cache afterwards, sizes: the child sizes]
childSizesFrom(ch, sc, kids, i) ==
  IF i > Len(kids) THEN [sc |-> sc, sizes |-> <<>>]
  ELSE LET then(this) ==
             LET prepend(rest) == [sc |-> rest.sc, sizes |-> <<this.size>> \o rest.sizes]
             IN Then(childSizesFrom(ch, this.sc, kids, i + 1), prepend)
           store(r) == then([sc |-> (kids[i] :> r.size) @@ r.sc, size |-> r.size])
       IN IF kids[i] \in DOMAIN sc
          THEN then([sc |-> sc, size |-> sc[kids[i]]])
          ELSE Then(calculateNodeSize(ch, sc, kids[i]), store)

calculateNodeSize(ch, sc, id) ==
  IF Len(ch[id]) = 0
  THEN [sc |-> sc, size |-> [width |-> calculateLeafNodeSize(id).width,
                             height |-> calculateLeafNodeSize(id).height]]
  ELSE LET arrange(r) ==
             LET sized(layoutResult) ==
                   [sc |-> r.sc, size |-> [width |-> layoutResult.layout.width,
                                           height |-> layoutResult.layout.height]]
             IN Then(findBestLayout(r.sizes, Len(ch[id])), sized)
       IN Then(childSizesFrom(ch, sc, ch[id], 1), arrange)

\* LayoutCache.getLayout and setLayout; the settings hash is the same in every
\* key of one engine instance, so a key is the list of child ids
hasLayout(lc, childIds) == childIds \in DOMAIN lc
getLayout(lc, childIds) == lc[childIds]

\* a cache that keeps the arrangement and forgets the order that goes with it
setLayoutWithoutPermutation(lc, childIds, result) ==
  (childIds :> [result EXCEPT !.permutation = [i \in 1..Len(childIds) |-> i]]) @@ lc

setLayout(lc, childIds, result) == (childIds :> result) @@ lc

RECURSIVE layoutTree(_, _, _, _), PermPlaceChildren(_, _, _, _, _, _)

PermPlaceChildren(S, kids, i, positions, x, y) ==
  IF i > Len(kids) THEN S
  ELSE LET resize(S1) ==
             PermPlaceChildren([S1 EXCEPT !.L[kids[i]].width = positions[i].width,
                                          !.L[kids[i]].height = positions[i].height],
                               kids, i + 1, positions, x, y)
       IN Then(layoutTree(S, kids[i], x + positions[i].x, y + positions[i].y), resize)

layoutTree(S, id, x, y) ==
  IF Len(S.ch[id]) = 0
  THEN [S EXCEPT !.L[id] = [calculateLeafNodeSize(id) EXCEPT !.x = x, !.y = y]]
  ELSE LET childIds == S.ch[id]
           hit == hasLayout(S.lc, childIds)
           arrange(r) ==
             LET place(layoutResult) ==
                   LET reordered == [i \in 1..Len(layoutResult.permutation) |->
                                       childIds[layoutResult.permutation[i]]]
                   IN PermPlaceChildren(
                        [L |-> [S.L EXCEPT ![id] = [x |-> x, y |-> y,
                                                    width |-> layoutResult.layout.width,
                                                    height |-> layoutResult.layout.height]],
                         ch |-> [S.ch EXCEPT ![id] = reordered],
                         sc |-> r.sc,
                         lc |-> IF hit THEN S.lc ELSE setLayout(S.lc, childIds, layoutResult)],
                        reordered, 1, layoutResult.layout.positions, x, y)
             IN Then(IF hit THEN getLayout(S.lc, childIds)
                     ELSE findBestLayout(r.sizes, Len(childIds)), place)
       IN Then(childSizesFrom(S.ch, S.sc, S.ch[id], 1), arrange)

RECURSIVE PermLayoutRoots(_, _), PermOffsetRoots(_, _, _)
PermLayoutRoots(S, i) ==
  IF i > Len(roots) THEN S
  ELSE LET next(S1) == PermLayoutRoots(S1, i + 1)
       IN Then(layoutTree(S, roots[i], 0, 0), next)

PermOffsetRoots(L, i, xOffset) ==
  IF i > Len(roots) THEN L
  ELSE IF L[roots[i]] = NoLayout THEN PermOffsetRoots(L, i + 1, xOffset)
  ELSE PermOffsetRoots([L EXCEPT ![roots[i]].x = xOffset], i + 1,
                       xOffset + L[roots[i]].width + opts.spacing)

PermutationCalculateLayout(S) ==
  LET offset(S1) == [S1 EXCEPT !.L = PermOffsetRoots(S1.L, 1, 0)]
  IN Then(PermLayoutRoots(S, 1), offset)

PermutationGetDiagramDimensions(L) ==
  IF Len(roots) = 0 \/ L[roots[1]] = NoLayout THEN [width |-> 0, height |-> 0]
  ELSE [width |-> maxXOf(L) - minXOf(L) + opts.padding * 2,
        height |-> maxYOf(L) - minYOf(L) + opts.padding * 2]

-----------------------------------------------------------------------------
(* Exact fractions [n, d] with d > 0 in lowest terms, for the Treemap      *)
(* engine, whose rectangles are quotients of areas.                        *)

RECURSIVE GCD(_, _)
GCD(a, b) ==
  CASE b = 0 -> a
    [] b # 0 /\ a % b = 0 -> b
    [] OTHER -> GCD(a % b, b % (a % b))

Q(n, d) == IF n = 0 THEN [n |-> 0, d |-> 1]
           ELSE [n |-> n \div GCD(Abs(n), d), d |-> d \div GCD(Abs(n), d)]
QInt(i) == [n |-> i, d |-> 1]
QZero == QInt(0)
QAdd(a, b) == Q(a.n * (b.d \div GCD(a.d, b.d)) + b.n * (a.d \div GCD(a.d, b.d)),
                (a.d \div GCD(a.d, b.d)) * b.d)
QNeg(a) == [n |-> 0 - a.n, d |-> a.d]
QSub(a, b) == QAdd(a, QNeg(b))
QMul(a, b) == IF a.n = 0 \/ b.n = 0 THEN QZero
              ELSE [n |-> (a.n \div GCD(Abs(a.n), b.d)) * (b.n \div GCD(Abs(b.n), a.d)),
                    d |-> (a.d \div GCD(Abs(b.n), a.d)) * (b.d \div GCD(Abs(a.n), b.d))]
QInv(a) == IF a.n > 0 THEN [n |-> a.d, d |-> a.n] ELSE [n |-> 0 - a.d, d |-> 0 - a.n]
QDiv(a, b) == QMul(a, QInv(b))
\* an/ad < bn/bd by comparing the continued fractions, without products
RECURSIVE FracLt(_, _, _, _)
FracLt(an, ad, bn, bd) ==
  CASE an \div ad # bn \div bd -> an \div ad < bn \div bd
    [] an \div ad = bn \div bd /\ bn % bd = 0 -> FALSE
    [] an \div ad = bn \div bd /\ bn % bd # 0 /\ an % ad = 0 -> TRUE
    [] OTHER -> FracLt(bd, bn % bd, ad, an % ad)
QLt(a, b) == FracLt(a.n, a.d, b.n, b.d)
QLe(a, b) == ~QLt(b, a)
QMax(a, b) == IF QLt(a, b) THEN b ELSE a
QMin(a, b) == IF QLt(b, a) THEN b ELSE a
QAbs(a) == [n |-> Abs(a.n), d |-> a.d]
QMaxOfSet(S) == CHOOSE e \in S : \A o \in S : QLe(o, e)
QMinOfSet(S) == CHOOSE e \in S : \A o \in S : QLe(e, o)

-----------------------------------------------------------------------------
(* TreemapLayoutEngine.  The state S threaded through the recursion is     *)
(* [L: layouts, ch: node.children] (squarify sorts node.children in place).*)

targetLeafAspectRatio == QInt(1)
aspectRatioWeight == Q(7, 10)
gapAdjustment == Q(1, 10)

\* calculateLeafNodeSize for a one-word label: a single line
treemapLeafNodeSize(id) ==
  [width |-> Max(titleMetrics(id).width + opts.padding * 2, opts.minNodeWidth),
   height |-> Max(1 * titleMetrics(id).height + opts.padding * 2, opts.minNodeHeight)]

\* node.value as calculateNodeValues computes it
RECURSIVE value(_)
value(id) ==
  IF isLeaf(id) THEN Max(treemapLeafNodeSize(id).width * treemapLeafNodeSize(id).height, 1)
  ELSE SumSeq([i \in 1..Len(children[id]) |-> value(children[id][i])])

valuesOf(nodes) == SumSeq([i \in 1..Len(nodes) |-> value(nodes[i])])

\* the layout side of calculateNodeValues: a layout object where there was
\* none, and the label size written into the layout of every leaf
calculateNodeValues(L) ==
  [id \in DOMAIN L |->
     LET l == IF L[id] = NoLayout
              THEN [x |-> QZero, y |-> QZero, width |-> QZero, height |-> QZero]
              ELSE L[id]
     IN IF isLeaf(id)
        THEN [l EXCEPT !.width = QInt(treemapLeafNodeSize(id).width),
                       !.height = QInt(treemapLeafNodeSize(id).height)]
        ELSE l]

FloorSqrt(a) == CHOOSE r \in 0..a : r * r <= a /\ (r + 1) * (r + 1) > a

\* Math.max(800 * scaleFactor [* 1.1], 1000); the square root is taken only
\* between the two caps, where it is rounded down to a whole number
initialSide(totalArea, widened) ==
  LET m == IF widened THEN Q(11, 10) ELSE QInt(1)
  IN IF totalArea >= 160000 THEN QMul(QInt(1600), m)
     ELSE IF totalArea <= 40000 THEN QInt(1000)
     ELSE QMax(QMul(QInt(4 * FloorSqrt(totalArea)), m), QInt(1000))

initialBounds ==
  LET totalArea == SumSeq([i \in 1..Len(input) |-> value(input[i].id)])
      leaves == {id \in NodeIds : isLeaf(id)}
      maxLeafWidth == MaxOfSet({treemapLeafNodeSize(id).width : id \in leaves})
      maxLeafHeight == MaxOfSet({treemapLeafNodeSize(id).height : id \in leaves})
      measured == maxLeafWidth > 0 /\ maxLeafHeight > 0
  IN [width |-> initialSide(totalArea, measured /\ 2 * maxLeafWidth > 3 * maxLeafHeight),
      height |-> initialSide(totalArea, measured /\ ~(2 * maxLeafWidth > 3 * maxLeafHeight)
                                          /\ 100 * maxLeafWidth < 67 * maxLeafHeight)]

\* nodes.sort((a, b) => b.value - a.value): stable, by value descending
RECURSIVE insertByValue(_, _), sortByValue(_)
insertByValue(sorted, id) ==
  IF sorted = <<>> THEN <<id>>
  ELSE IF value(Head(sorted)) >= value(id) THEN <<Head(sorted)>> \o insertByValue(Tail(sorted), id)
  ELSE <<id>> \o sorted
sortByValue(nodes) ==
  IF nodes = <<>> THEN <<>>
  ELSE insertByValue(sortByValue(SubSeq(nodes, 1, Len(nodes) - 1)), nodes[Len(nodes)])

\* the weighted aspect ratio of one node of a row of the given total value
weightedAspectRatio(id, totalValue, w, h, parentTotalValue) ==
  LET horizontal == QLe(h, w)
      weigh(rawAspectRatio, targetDistance) ==
        QAdd(QMul(QSub(QInt(1), aspectRatioWeight), rawAspectRatio),
             QMul(aspectRatioWeight, QMul(rawAspectRatio, QAdd(QInt(1), targetDistance))))
      distance(nodeWidthToHeight) == QAbs(QSub(nodeWidthToHeight, targetLeafAspectRatio))
      ratios(length, nodeLength) ==
        weigh(QMax(QDiv(length, nodeLength), QDiv(nodeLength, length)),
              distance(IF horizontal THEN QDiv(nodeLength, length)
                       ELSE QDiv(length, nodeLength)))
  IN ratios(QMul(IF horizontal THEN h ELSE w, Q(totalValue, parentTotalValue)),
            QMul(IF horizontal THEN w ELSE h, Q(value(id), totalValue)))

calculateWorstAspectRatio(nodes, totalValue, w, h, parentTotalValue) ==
  QMaxOfSet({QZero} \cup {weightedAspectRatio(nodes[i], totalValue, w, h, parentTotalValue) :
                            i \in 1..Len(nodes)})

\* the number of leading nodes the loop of squarify keeps for the current row:
\* it stops at the first node that makes the score worse
RECURSIVE prefixLength(_, _, _, _, _)
prefixLength(nodes, i, w, h, totalValue) ==
  IF i > Len(nodes) THEN Len(nodes)
  ELSE IF i = 1 THEN prefixLength(nodes, 2, w, h, totalValue)
  ELSE LET worst(row) == calculateWorstAspectRatio(row, valuesOf(row), w, h, totalValue)
       IN IF QLe(worst(SubSeq(nodes, 1, i)), worst(SubSeq(nodes, 1, i - 1)))
          THEN prefixLength(nodes, i + 1, w, h, totalValue)
          ELSE i - 1

RECURSIVE squarify(_, _, _, _, _, _, _), squarifyRow(_, _, _, _, _, _, _, _, _)

\* the loop over currentNodes: `along` is nodeX (horizontal) or nodeY, `across`
\* the other coordinate, rowLength/rowThickness the row's two sides, `limit`
\* the far edge x + w or y + h
squarifyRow(S, currentNodes, i, horizontal, along, across, rowLength, rowThickness, limit) ==
  IF i > Len(currentNodes) THEN S
  ELSE LET id == currentNodes[i]
           boxOf(nodeLength) ==
             IF horizontal
             THEN [x |-> along, y |-> across,
                   width |-> QMax(QZero, QSub(nodeLength, gapAdjustment)),
                   height |-> QMax(QZero, QSub(rowThickness, gapAdjustment))]
             ELSE [x |-> across, y |-> along,
                   width |-> QMax(QZero, QSub(rowThickness, gapAdjustment)),
                   height |-> QMax(QZero, QSub(nodeLength, gapAdjustment))]
           descend(S1, box, nodeWidth, nodeHeight) ==
             IF QLt(QInt(opts.minNodeWidth), nodeWidth)
                /\ QLt(QInt(opts.minNodeHeight), nodeHeight)
             THEN squarify(S1, S1.ch[id], id, box.x, box.y, nodeWidth, nodeHeight)
             ELSE S1
           assign(box, nodeLength) ==
             descend([S EXCEPT !.L[id] = box], box,
                     IF horizontal THEN nodeLength ELSE rowThickness,
                     IF horizontal THEN rowThickness ELSE nodeLength)
           step(nodeLength) ==
             LET next(S2, nodeAlong) ==
                   squarifyRow(S2, currentNodes, i + 1, horizontal, nodeAlong, across,
                               rowLength, rowThickness, limit)
             IN IF QLe(nodeLength, QZero) THEN next(S, along)
                ELSE Then2(assign(boxOf(nodeLength), nodeLength), QAdd(along, nodeLength),
                           next)
       IN Then(QMin(QMul(rowLength, Q(value(id), valuesOf(currentNodes))),
                    QSub(limit, along)), step)

\* owner is the node whose children array `nodes` is, 0 for a slice of one
squarify(S, nodes, owner, x, y, w, h) ==
  IF Len(nodes) = 0 THEN S
  ELSE IF QLe(w, QZero) \/ QLe(h, QZero) THEN S
  ELSE LET horizontal == QLe(h, w)
           row(sorted, k, thickness) ==
             LET shrinkX == ~horizontal /\ QLt(QZero, QSub(w, thickness))
                 shrinkY == horizontal /\ QLt(QZero, QSub(h, thickness))
                 remainder(S2) ==
                   IF Len(sorted) > k
                   THEN squarify(S2, SubSeq(sorted, k + 1, Len(sorted)), 0,
                                 IF shrinkX THEN QAdd(x, thickness) ELSE x,
                                 IF shrinkY THEN QAdd(y, thickness) ELSE y,
                                 IF shrinkX THEN QSub(w, thickness) ELSE w,
                                 IF shrinkY THEN QSub(h, thickness) ELSE h)
                   ELSE S2
             IN Then(squarifyRow(IF owner = 0 THEN S ELSE [S EXCEPT !.ch[owner] = sorted],
                                 SubSeq(sorted, 1, k), 1, horizontal,
                                 IF horizontal THEN x ELSE y,
                                 IF horizontal THEN y ELSE x,
                                 IF horizontal THEN w ELSE h,
                                 thickness,
                                 IF horizontal THEN QAdd(x, w) ELSE QAdd(y, h)),
                     remainder)
           cut(sorted, totalValue, k) ==
             row(sorted, k,
                 QMul(IF horizontal THEN h ELSE w,
                      Q(valuesOf(SubSeq(sorted, 1, k)), totalValue)))
           measure(sorted, totalValue) ==
             cut(sorted, totalValue, prefixLength(sorted, 1, w, h, totalValue))
           order(sorted) == measure(sorted, valuesOf(sorted))
       IN Then(sortByValue(nodes), order)

right(l) == QAdd(l.x, l.width)
bottom(l) == QAdd(l.y, l.height)

\* first loop over the children: spacing inset, then the minimum sizes
insetChild(l) ==
  [x |-> QAdd(l.x, QInt(opts.spacing)),
   y |-> QAdd(l.y, QInt(opts.spacing)),
   width |-> QMax(QMax(QZero, QSub(l.width, QInt(2 * opts.spacing))), QInt(opts.minNodeWidth)),
   height |-> QMax(QMax(QZero, QSub(l.height, QInt(2 * opts.spacing))), QInt(opts.minNodeHeight))]

\* the overflow block: children scaled back towards the inner corner
scaleChildren(L, kids, innerX, innerY, innerWidth, innerHeight) ==
  LET scaled(scale) ==
        [id \in DOMAIN L |->
           IF id \in kids
           THEN [x |-> QAdd(innerX, QMul(QSub(L[id].x, innerX), scale)),
                 y |-> QAdd(innerY, QMul(QSub(L[id].y, innerY), scale)),
                 width |-> QMax(QMul(L[id].width, scale), QInt(opts.minNodeWidth)),
                 height |-> QMax(QMul(L[id].height, scale), QInt(opts.minNodeHeight))]
           ELSE L[id]]
      shrink(overflowX, overflowY, maxRight, maxBottom) ==
        IF overflowX \/ overflowY
        THEN scaled(QMin(IF overflowX THEN QDiv(innerWidth, QSub(maxRight, innerX))
                         ELSE QInt(1),
                         IF overflowY THEN QDiv(innerHeight, QSub(maxBottom, innerY))
                         ELSE QInt(1)))
        ELSE L
      overflow(maxRight, maxBottom) ==
        shrink(QLt(QAdd(innerX, innerWidth), maxRight),
               QLt(QAdd(innerY, innerHeight), maxBottom), maxRight, maxBottom)
  IN overflow(QMaxOfSet({innerX} \cup {right(L[c]) : c \in kids}),
              QMaxOfSet({innerY} \cup {bottom(L[c]) : c \in kids}))

\* the parent resized to enclose its children plus padding
encloseChildren(L, id, kids) ==
  LET bound(minX, minY, maxRight, maxBottom) ==
        [L EXCEPT ![id] =
           [x |-> QSub(minX, QInt(opts.padding)),
            y |-> QSub(minY, QInt(opts.padding)),
            width |-> QMax(QAdd(QSub(maxRight, minX), QInt(2 * opts.padding)),
                           QInt(opts.minNodeWidth)),
            height |-> QMax(QAdd(QSub(maxBottom, minY), QInt(2 * opts.padding)),
                            QInt(opts.minNodeHeight))]]
  IN bound(QMinOfSet({L[c].x : c \in kids}), QMinOfSet({L[c].y : c \in kids}),
           QMaxOfSet({right(L[c]) : c \in kids}), QMaxOfSet({bottom(L[c]) : c \in kids}))

RECURSIVE layoutNodeRecursive(_, _, _, _, _, _), TreemapChildrenFrom(_, _, _, _, _)

\* last loop over the children: clip to the children's extent, then recurse
TreemapChildrenFrom(S, kids, i, maxRight, maxBottom) ==
  IF i > Len(kids) THEN S
  ELSE LET next(S1) == TreemapChildrenFrom(S1, kids, i + 1, maxRight, maxBottom)
           clipped(l) ==
             Then(layoutNodeRecursive(S, kids[i], l.x, l.y,
                    IF QLt(maxRight, right(l)) THEN QMax(QZero, QSub(maxRight, l.x))
                    ELSE l.width,
                    IF QLt(maxBottom, bottom(l)) THEN QMax(QZero, QSub(maxBottom, l.y))
                    ELSE l.height), next)
       IN clipped(S.L[kids[i]])

layoutNodeRecursive(S, id, x, y, width, height) ==
  IF isLeaf(id)
  THEN [S EXCEPT !.L[id] = [x |-> x, y |-> y,
                            width |-> QMax(width, QInt(opts.minNodeWidth)),
                            height |-> QMax(height, QInt(opts.minNodeHeight))]]
  ELSE LET innerX == QAdd(x, QInt(opts.padding))
           innerY == QAdd(y, QInt(opts.padding))
           innerWidth == QMax(QZero, QSub(width, QInt(2 * opts.padding)))
           innerHeight == QMax(QZero, QSub(height, QInt(2 * opts.padding)))
           fit(S1) ==
             LET kids == Range(S1.ch[id])
                 clip(L3) ==
                   LET recurse(S2) ==
                         TreemapChildrenFrom(S2, S1.ch[id], 1,
                                             QMaxOfSet({right(L3[c]) : c \in kids}),
                                             QMaxOfSet({bottom(L3[c]) : c \in kids}))
                   IN Then([S1 EXCEPT !.L = encloseChildren(L3, id, kids)], recurse)
             IN Then(scaleChildren([c \in DOMAIN S1.L |->
                                      IF c \in kids THEN insetChild(S1.L[c]) ELSE S1.L[c]],
                                   kids, innerX, innerY, innerWidth, innerHeight), clip)
       IN Then(squarify([S EXCEPT !.L[id] = [x |-> x, y |-> y,
                                             width |-> width, height |-> height]],
                        S.ch[id], id, innerX, innerY, innerWidth, innerHeight), fit)

\* offsetNodeLayout: a node and all its descendants moved by (dx, dy)
offsetNodeLayout(L, id, dx, dy) ==
  [n \in DOMAIN L |->
     IF n \in Subtree(id) /\ L[n] # NoLayout
     THEN [L[n] EXCEPT !.x = QAdd(@, dx), !.y = QAdd(@, dy)] ELSE L[n]]

RECURSIVE TreemapLayoutRoots(_, _), TreemapPlaceRoots(_, _, _)
TreemapLayoutRoots(S, i) ==
  IF i > Len(roots) THEN S
  ELSE LET next(S1) == TreemapLayoutRoots(S1, i + 1)
       IN Then(layoutNodeRecursive(S, roots[i], QZero, QZero,
                                   initialBounds.width, initialBounds.height), next)

\* roots side by side
TreemapPlaceRoots(L, i, currentX) ==
  IF i > Len(roots) THEN L
  ELSE LET next(L1) ==
             TreemapPlaceRoots(L1, i + 1, QAdd(right(L1[roots[i]]), QInt(opts.spacing * 2)))
       IN Then(offsetNodeLayout(L, roots[i], QSub(currentX, L[roots[i]].x), QZero), next)

TreemapCalculateLayout(S) ==
  LET place(S1) == [S1 EXCEPT !.L = TreemapPlaceRoots(S1.L, 1, QZero)]
  IN Then(TreemapLayoutRoots([S EXCEPT !.L = calculateNodeValues(S.L)], 1), place)

TreemapGetDiagramDimensions(L) ==
  IF Len(roots) = 0 \/ L[roots[1]] = NoLayout
  THEN [dims |-> [width |-> QZero, height |-> QZero], layout |-> L]
  ELSE LET minX == QMinOfSet({L[id].x : id \in laidOut(L)})
           minY == QMinOfSet({L[id].y : id \in laidOut(L)})
           maxX == QMaxOfSet({right(L[id]) : id \in laidOut(L)})
           maxY == QMaxOfSet({bottom(L[id]) : id \in laidOut(L)})
           finalWidth == QAdd(QSub(maxX, minX), QInt(opts.padding * 2))
           finalHeight == QAdd(QSub(maxY, minY), QInt(opts.padding * 2))
           offsetX == QSub(QInt(opts.padding), minX)
           offsetY == QSub(QInt(opts.padding), minY)
       IN [dims |-> [width |-> finalWidth, height |-> finalHeight],
           layout |-> IF QLt(QZero, finalWidth) \/ QLt(QZero, finalHeight)
                      THEN [n \in DOMAIN L |->
                              IF L[n] = NoLayout THEN L[n]
                              ELSE [L[n] EXCEPT !.x = QAdd(@, offsetX), !.y = QAdd(@, offsetY)]]
                      ELSE L]

-----------------------------------------------------------------------------
(* Initial states and actions *)

Engines == {"grid", "aspectratio", "flowgrid", "packing", "permutation", "treemap"}

\* node lists in which every node follows its parent; node i is named i
CanonicalInputs ==
  UNION {{[i \in 1..n |-> [id |-> i, name |-> i, parent |-> pv[i]]] :
            pv \in {f \in [1..n -> 0..(n - 1)] : \A i \in 1..n : f[i] < i}} : n \in 1..MaxNodes}

\* arbitrary node lists: ids may be missing or repeated, parents may be
\* unknown or form cycles, children may precede their parents
IdPool == 1..3
ArbitraryInputs ==
  UNION {[1..n -> [id : IdPool \cup {NoId}, name : {1}, parent : IdPool \cup {NullParent}]] :
           n \in 0..MaxInputLen}

\* DEFAULT_OPTIONS of LayoutEngine
DefaultOptions ==
  [columns |-> 2, padding |-> 10, spacing |-> 5, minNodeWidth |-> 100, minNodeHeight |-> 40,
   targetAspectRatio |-> [num |-> 16, den |-> 9], leafNodeWidth |-> 0,
   maxPermutationChildren |-> 8]

\* a single root with two leaves of short names ("A" and "BB"), and the
\* options under which both names are narrower than the minimum node width
TwoLeavesInput ==
  <<[id |-> 1, name |-> 1, parent |-> NullParent], [id |-> 2, name |-> 8, parent |-> 1],
    [id |-> 3, name |-> 2, parent |-> 1]>>
TwoLeavesOptions == [DefaultOptions EXCEPT !.minNodeWidth = 50, !.minNodeHeight = 20]

Ratios == {[num |-> 1, den |-> 1], [num |-> 16, den |-> 9]}

\* the options an engine is constructed with (columns is read by the Grid
\* engine only, leafNodeWidth by the engines that take style options)
Gaps == {[padding |-> 0, spacing |-> 0], [padding |-> 10, spacing |-> 0],
         [padding |-> 10, spacing |-> 10]}
OptionsWith(columnsSet, gaps, minWidths, minHeights, ratios, leafWidths) ==
  {[columns |-> c, padding |-> g.padding, spacing |-> g.spacing, minNodeWidth |-> mw,
    minNodeHeight |-> mh, targetAspectRatio |-> r, leafNodeWidth |-> lw,
    maxPermutationChildren |-> 8] :
     c \in columnsSet, g \in gaps, mw \in minWidths, mh \in minHeights, r \in ratios,
     lw \in leafWidths}
OptionSets(e) ==
  CASE e = "grid" ->
         OptionsWith({1, 2}, Gaps, {100}, {40}, {[num |-> 16, den |-> 9]}, {0, 20})
           \cup {TwoLeavesOptions}
    [] e = "aspectratio" -> OptionsWith({2}, Gaps, {100}, {40}, Ratios, {0, 20})
    [] e = "flowgrid" -> OptionsWith({2}, Gaps, {100}, {40}, {[num |-> 16, den |-> 9]}, {0, 20})
    [] e = "packing" -> OptionsWith({2}, Gaps, {100}, {40}, Ratios, {0})
    [] e = "permutation" ->
         {[o EXCEPT !.maxPermutationChildren = m] :
            o \in OptionsWith({2}, Gaps, {100}, {40}, {[num |-> 16, den |-> 9]}, {0, 20}),
            m \in {2, 8}}
    [] e = "treemap" ->
         OptionsWith({2}, {[padding |-> 10, spacing |-> 5], [padding |-> 800, spacing |-> 5]},
                     {5, 100}, {5}, {[num |-> 16, den |-> 9]}, {0})
           \cup OptionsWith({2}, {[padding |-> 10, spacing |-> 5]}, {600}, {1000},
                            {[num |-> 16, den |-> 9]}, {0})

EmptyCache == [sizeCache |-> <<>>, layoutCache |-> <<>>]
NoSolution == [none |-> TRUE]

\* The Treemap engine's rectangles are exact fractions whose terms grow with
\* every level of branching; its forests are one node smaller, which keeps
\* the terms within the integers of the model checker.
\* The Permutation engine is also given the same forests with the longer
\* name 7 on the last node, which makes the widths of three sibling leaves
\* all different.
RenamedInputs ==
  {[nodes EXCEPT ![Len(nodes)].name = 7] : nodes \in CanonicalInputs}
InputsOf(e) ==
  CASE e = "treemap" -> {nodes \in CanonicalInputs : Len(nodes) < MaxNodes}
    [] e = "permutation" -> CanonicalInputs \cup RenamedInputs
    [] e = "grid" -> CanonicalInputs \cup {TwoLeavesInput}
    [] OTHER -> CanonicalInputs

Init ==
  /\ \/ /\ engine \in Engines
        /\ input \in InputsOf(engine)
        /\ opts \in OptionSets(engine)
     \/ /\ input \in ArbitraryInputs
        /\ engine = "grid"
        /\ opts = DefaultOptions
  /\ phase = "input"
  /\ roots = <<>>
  /\ children = <<>>
  /\ rootAncestor = <<>>
  /\ layout = <<>>
  /\ cache = EmptyCache
  /\ dims = NoDims
  /\ calls = 0
  /\ lastOp = "none"
  /\ given = <<>>
  /\ solution = NoSolution

\* generateDiagram up to buildHierarchy: validate, then build
BuildHierarchy ==
  /\ phase = "input"
  /\ LET st == buildHierarchy(input)
     IN IF validateHierarchyInput(input) /\ ~st.err
        THEN /\ phase' = "built"
             /\ roots' = st.roots
             /\ children' = st.children
             /\ rootAncestor' = st.rootAncestor
             /\ layout' = [id \in InputIds(input) |-> NoLayout]
        ELSE /\ phase' = "error"
             /\ UNCHANGED <<roots, children, rootAncestor, layout>>
  /\ lastOp' = "build"
  /\ UNCHANGED <<input, engine, opts, cache, dims, calls, given, solution>>

\* what every calculateLayout call has in common
Calculating(e) ==
  /\ phase \in {"built", "laid"}
  /\ engine = e
  /\ calls < MaxCalls
  /\ calls' = calls + 1
  /\ phase' = "laid"
  /\ lastOp' = "layout"
  /\ UNCHANGED <<input, engine, opts, roots, rootAncestor, dims, given, solution>>

\* what every getDiagramDimensions call has in common
Measuring(e) ==
  /\ phase = "laid"
  /\ engine = e
  /\ lastOp' = "dims"
  /\ UNCHANGED <<input, phase, engine, opts, roots, children, rootAncestor, cache, calls,
                 given, solution>>

GridCalculate ==
  /\ Calculating("grid")
  /\ layout' = GridCalculateLayout(layout)
  /\ UNCHANGED <<children, cache>>

GridDimensions ==
  /\ Measuring("grid")
  /\ LET r == GridGetDiagramDimensions(layout)
     IN dims' = r.dims /\ layout' = r.layout

AspectCalculate ==
  /\ Calculating("aspectratio")
  /\ layout' = AspectCalculateLayout(layout)
  /\ UNCHANGED <<children, cache>>

AspectDimensions ==
  /\ Measuring("aspectratio")
  /\ dims' = AspectGetDiagramDimensions(layout)
  /\ UNCHANGED layout

FlowCalculate ==
  /\ Calculating("flowgrid")
  /\ layout' = FlowCalculateLayout(layout)
  /\ UNCHANGED <<children, cache>>

FlowDimensions ==
  /\ Measuring("flowgrid")
  /\ dims' = FlowGetDiagramDimensions(layout)
  /\ UNCHANGED layout

PackingCalculate ==
  /\ Calculating("packing")
  /\ layout' = PackingCalculateLayout(layout)
  /\ UNCHANGED <<children, cache>>

PackingDimensions ==
  /\ Measuring("packing")
  /\ dims' = PackingGetDiagramDimensions(layout)
  /\ UNCHANGED layout

PermutationCalculate ==
  /\ Calculating("permutation")
  /\ LET S == PermutationCalculateLayout(
                [L |-> layout, ch |-> children, sc |-> cache.sizeCache, lc |-> cache.layoutCache])
     IN /\ layout' = S.L
        /\ children' = S.ch
        /\ cache' = [sizeCache |-> S.sc, layoutCache |-> S.lc]

\* the caller builds the forest again from the same input and keeps the
\* engine instance; only the Permutation engine carries anything (its cache)
\* from one forest to the next
RebuildHierarchy ==
  /\ phase = "laid"
  /\ engine = "permutation"
  /\ calls < MaxCalls
  /\ phase' = "built"
  /\ children' = buildHierarchy(input).children
  /\ layout' = [id \in NodeIds |-> NoLayout]
  /\ lastOp' = "rebuild"
  /\ UNCHANGED <<input, engine, opts, roots, rootAncestor, cache, dims, calls, given, solution>>

PermutationDimensions ==
  /\ Measuring("permutation")
  /\ dims' = PermutationGetDiagramDimensions(layout)
  /\ UNCHANGED layout

TreemapCalculate ==
  /\ Calculating("treemap")
  /\ LET S == TreemapCalculateLayout([L |-> layout, ch |-> children])
     IN layout' = S.L /\ children' = S.ch
  /\ UNCHANGED cache

TreemapDimensions ==
  /\ Measuring("treemap")
  /\ LET r == TreemapGetDiagramDimensions(layout)
     IN dims' = r.dims /\ layout' = r.layout

Next ==
  \/ BuildHierarchy
  \/ GridCalculate
  \/ GridDimensions
  \/ AspectCalculate
  \/ AspectDimensions
  \/ FlowCalculate
  \/ FlowDimensions
  \/ PackingCalculate
  \/ PackingDimensions
  \/ PermutationCalculate
  \/ PermutationDimensions
  \/ RebuildHierarchy
  \/ TreemapCalculate
  \/ TreemapDimensions

Spec == Init /\ [][Next]_vars

-----------------------------------------------------------------------------
(* The arrangement solvers called on their own: findBestGridArrangement of *)
(* the Aspect Ratio and Flow Grid engines, findBestPackingArrangement of   *)
(* the Packing engine and findBestLayout of the Permutation engine are     *)
(* functions of the item sizes and the options, so they are also run on    *)
(* item lists that no small forest produces.                               *)

MaxItems == 4     \* items handed to a solver

Size(w, h) == [width |-> w, height |-> h]

\* wide, tall, square and flat (zero height) items
GridItemSizes ==
  {Size(50, 50), Size(100, 100), Size(200, 50), Size(50, 200), Size(100, 0), Size(50, 0)}
PermutationItemSizes == <<Size(100, 50), Size(50, 100), Size(75, 75)>>

ItemLists(sizes) == UNION {[1..n -> sizes] : n \in 0..MaxItems}

\* findBestLayout goes through every ordering of the sizes it is given, so it
\* is given one list of every multiset of sizes; the children of a non-leaf
\* are never none
PermutationItemLists ==
  UNION {{[i \in 1..n |-> PermutationItemSizes[f[i]]] :
            f \in {g \in [1..n -> 1..Len(PermutationItemSizes)] :
                     \A i \in 1..(n - 1) : g[i] <= g[i + 1]}} : n \in 1..MaxItems}

SolverEngines == {"aspectratio", "flowgrid", "packing", "permutation"}

SolverItems(e) ==
  IF e = "permutation" THEN PermutationItemLists ELSE ItemLists(GridItemSizes)

\* padding is read by findBestLayout only, the minimum sizes by the Flow Grid
\* solver only
SolverOptions(e) ==
  CASE e \in {"aspectratio", "packing"} ->
         OptionsWith({2}, {[padding |-> 10, spacing |-> 0], [padding |-> 10, spacing |-> 10]},
                     {100}, {40}, Ratios, {0})
    [] e = "flowgrid" ->
         OptionsWith({2}, {[padding |-> 10, spacing |-> 0], [padding |-> 10, spacing |-> 10]},
                     {0, 100}, {0}, Ratios, {0})
           \cup OptionsWith({2}, {[padding |-> 10, spacing |-> 0]}, {100}, {40}, Ratios, {0})
    [] e = "permutation" -> OptionsWith({2}, Gaps, {100}, {40}, Ratios, {0})

SolverInit ==
  /\ engine \in SolverEngines
  /\ opts \in SolverOptions(engine)
  /\ given \in SolverItems(engine)
  /\ solution = NoSolution
  /\ phase = "items"
  /\ input = <<>>
  /\ roots = <<>>
  /\ children = <<>>
  /\ rootAncestor = <<>>
  /\ layout = <<>>
  /\ cache = EmptyCache
  /\ dims = NoDims
  /\ calls = 0
  /\ lastOp = "none"

\* what every call of a solver has in common
Solving(e) ==
  /\ phase = "items"
  /\ engine = e
  /\ phase' = "solved"
  /\ lastOp' = "solve"
  /\ UNCHANGED <<input, engine, opts, roots, children, rootAncestor, layout, cache, dims,
                 calls, given>>

AspectFindBestGridArrangement ==
  /\ Solving("aspectratio")
  /\ solution' = findBestGridArrangement(given, opts.targetAspectRatio)

FlowFindBestGridArrangement ==
  /\ Solving("flowgrid")
  /\ solution' = flowFindBestGridArrangement(given, opts.targetAspectRatio)

PackingFindBestPackingArrangement ==
  /\ Solving("packing")
  /\ solution' = findBestPackingArrangement(given, opts.targetAspectRatio)

PermutationFindBestLayout ==
  /\ Solving("permutation")
  /\ solution' = findBestLayout(given, Len(given))

SolverNext ==
  \/ AspectFindBestGridArrangement
  \/ FlowFindBestGridArrangement
  \/ PackingFindBestPackingArrangement
  \/ PermutationFindBestLayout

SolverSpec == SolverInit /\ [][SolverNext]_vars

-----------------------------------------------------------------------------
(* layout/index.ts: createLayoutEngine chooses the engine class from the   *)
(* layoutType string of the options.  A string is the sequence of its      *)
(* characters.                                                             *)

UpperCaseLetters ==
  <<"A", "B", "C", "D", "E", "F", "G", "H", "I", "J", "K", "L", "M",
    "N", "O", "P", "Q", "R", "S", "T", "U", "V", "W", "X", "Y", "Z">>
LowerCaseLetters ==
  <<"a", "b", "c", "d", "e", "f", "g", "h", "i", "j", "k", "l", "m",
    "n", "o", "p", "q", "r", "s", "t", "u", "v", "w", "x", "y", "z">>

\* String.prototype.toLowerCase
toLowerCase(str) ==
  [i \in 1..Len(str) |->
     IF \E k \in 1..Len(UpperCaseLetters) : UpperCaseLetters[k] = str[i]
     THEN LowerCaseLetters[CHOOSE k \in 1..Len(UpperCaseLetters) : UpperCaseLetters[k] = str[i]]
     ELSE str[i]]

\* layoutOptions.targetAspectRatio left out; a layoutType left out is the
\* empty string here, the test of the code taking both for false
NoRatio == [none |-> TRUE]

\* the engine class constructed, and whether console.warn was called
Constructed(class, warned) == [engine |-> class, warned |-> warned]

createLayoutEngine(layoutOptions) ==
  LET chosen(type) ==
        CASE type = <<"g", "r", "i", "d">> -> Constructed("grid", FALSE)
          [] type = <<"a", "s", "p", "e", "c", "t", "r", "a", "t", "i", "o">>
               -> Constructed("aspectratio", FALSE)
          [] type = <<"a", "s", "p", "e", "c", "t", "-", "r", "a", "t", "i", "o">>
               -> Constructed("aspectratio", FALSE)
          [] type = <<"f", "l", "o", "w", "g", "r", "i", "d">> -> Constructed("flowgrid", FALSE)
          [] type = <<"f", "l", "o", "w", "-", "g", "r", "i", "d">> -> Constructed("flowgrid", FALSE)
          [] type = <<"f", "l", "o", "w", "-", "a", "s", "p", "e", "c", "t">>
               -> Constructed("flowgrid", FALSE)
          [] type = <<"o", "p", "t", "i", "m", "i", "z", "e", "d">>
               -> Constructed("permutation", FALSE)
          [] type = <<"p", "e", "r", "m", "u", "t", "a", "t", "i", "o", "n">>
               -> Constructed("permutation", FALSE)
          [] type = <<"p", "e", "r", "m", "u", "t", "a", "t", "i", "o", "n", "-", "g", "r", "i", "d">>
               -> Constructed("permutation", FALSE)
          [] OTHER -> Constructed("grid", TRUE)
  IN IF layoutOptions.layoutType # <<>>
     THEN chosen(toLowerCase(layoutOptions.layoutType))
     ELSE IF layoutOptions.targetAspectRatio # NoRatio
     THEN Constructed("aspectratio", FALSE)
     ELSE Constructed("grid", FALSE)

\* spellings of the six engine names, the aliases the switch knows, the
\* default of config/defaults.ts ("aspectRatioGrid") and unknown names
LayoutTypes ==
  {<<"g", "r", "i", "d">>, <<"G", "r", "i", "d">>, <<"G", "R", "I", "D">>,
   <<"a", "s", "p", "e", "c", "t", "r", "a", "t", "i", "o">>,
   <<"A", "s", "p", "e", "c", "t", "R", "a", "t", "i", "o">>,
   <<"a", "s", "p", "e", "c", "t", "-", "r", "a", "t", "i", "o">>,
   <<"f", "l", "o", "w", "g", "r", "i", "d">>, <<"F", "l", "o", "w", "G", "r", "i", "d">>,
   <<"f", "l", "o", "w", "-", "g", "r", "i", "d">>,
   <<"f", "l", "o", "w", "-", "a", "s", "p", "e", "c", "t">>,
   <<"p", "e", "r", "m", "u", "t", "a", "t", "i", "o", "n">>,
   <<"P", "E", "R", "M", "U", "T", "A", "T", "I", "O", "N">>,
   <<"o", "p", "t", "i", "m", "i", "z", "e", "d">>,
   <<"p", "e", "r", "m", "u", "t", "a", "t", "i", "o", "n", "-", "g", "r", "i", "d">>,
   <<"p", "a", "c", "k", "i", "n", "g">>, <<"P", "a", "c", "k", "i", "n", "g">>,
   <<"t", "r", "e", "e", "m", "a", "p">>, <<"T", "r", "e", "e", "M", "a", "p">>,
   <<"a", "s", "p", "e", "c", "t", "R", "a", "t", "i", "o", "G", "r", "i", "d">>,
   <<"r", "a", "d", "i", "a", "l">>, <<"g", "r", "i", "d", "s">>, <<>>}

FactoryInit ==
  /\ given \in [layoutType : LayoutTypes, targetAspectRatio : Ratios \cup {NoRatio}]
  /\ opts \in OptionsWith({2}, Gaps, {100}, {40}, {[num |-> 16, den |-> 9]}, {0})
  /\ engine = "none"
  /\ solution = NoSolution
  /\ phase = "options"
  /\ input = <<>>
  /\ roots = <<>>
  /\ children = <<>>
  /\ rootAncestor = <<>>
  /\ layout = <<>>
  /\ cache = EmptyCache
  /\ dims = NoDims
  /\ calls = 0
  /\ lastOp = "none"

CreateLayoutEngine ==
  /\ phase = "options"
  /\ solution' = createLayoutEngine(given)
  /\ engine' = solution'.engine
  /\ phase' = "constructed"
  /\ lastOp' = "create"
  /\ UNCHANGED <<input, opts, roots, children, rootAncestor, layout, cache, dims, calls, given>>

FactoryNext == CreateLayoutEngine

FactorySpec == FactoryInit /\ [][FactoryNext]_vars

-----------------------------------------------------------------------------
(* Properties *)

Laid == phase = "laid"
Overlap(a, b) ==
  /\ a.x < b.x + b.width /\ b.x < a.x + a.width
  /\ a.y < b.y + b.height /\ b.y < a.y + a.height
Inside(box, r) ==
  /\ box.x >= r.x /\ box.y >= r.y
  /\ box.x + box.width <= r.x + r.width
  /\ box.y + box.height <= r.y + r.height
ChildrenOf(id) == Range(children[id])
NonLeaves == {id \in NodeIds : ~isLeaf(id)}

\* C1: after calculateLayout of the Grid, Aspect-Ratio-Grid, Flow-Grid, Packing
\* or Permutation engine, no two distinct children of a node have overlapping
\* boxes (touching edges allowed).
C1_NoSiblingOverlap ==
  (Laid /\ engine \in {"grid", "aspectratio", "flowgrid", "packing", "permutation"}) =>
    \A id \in NodeIds : \A a, b \in ChildrenOf(id) :
      a # b => ~Overlap(layout[a], layout[b])
C1_Witness ==
  /\ Laid /\ engine = "permutation" /\ opts.spacing = 0
  /\ \E id \in NodeIds : Len(children[id]) >= 3

\* C2: after calculateLayout of the Grid or the Aspect-Ratio-Grid engine every
\* direct child's box lies inside its parent's contentArea on all four sides.
C2_ChildInsideContentArea ==
  (Laid /\ engine \in {"grid", "aspectratio"}) =>
    \A id \in NonLeaves : \A c \in ChildrenOf(id) : Inside(layout[c], layout[id].contentArea)
C2_Witness ==
  /\ Laid /\ engine = "aspectratio" /\ opts.padding > 0
  /\ \E id \in NonLeaves : \E c \in ChildrenOf(id) : ~isLeaf(c)

\* C3: after calculateLayout of the Flow-Grid engine every direct child's box
\* lies inside its parent's contentArea on all four sides, for any padding >= 0.
C3_FlowChildInsideContentArea ==
  (Laid /\ engine = "flowgrid") =>
    \A id \in NonLeaves : \A c \in ChildrenOf(id) : Inside(layout[c], layout[id].contentArea)

\* the area a Packing node reserves for its children, in diagram coordinates
reservedArea(id) ==
  Rect(layout[id].x + layout[id].contentArea.x, layout[id].y + layout[id].contentArea.y,
       layout[id].contentArea.width, layout[id].contentArea.height)

\* C4: after calculateLayout of the Packing engine every direct child's box lies
\* inside the content area its parent reserved in the size pass.
C4_PackingChildInsideContentArea ==
  (Laid /\ engine = "packing") =>
    \A id \in NonLeaves : \A c \in ChildrenOf(id) : Inside(layout[c], reservedArea(id))

\* what the contract calls a malformed input
ParentIndexes(nodes, i) ==
  {j \in 1..Len(nodes) : nodes[i].parent # NullParent /\ nodes[j].id = nodes[i].parent}
RECURSIVE AncestorIndexes(_, _, _)
AncestorIndexes(nodes, from, steps) ==
  IF steps = 0 THEN {}
  ELSE LET up == UNION {ParentIndexes(nodes, i) : i \in from}
       IN up \cup AncestorIndexes(nodes, up, steps - 1)
EmptyInput(nodes) == Len(nodes) = 0
MissingId(nodes) == \E i \in 1..Len(nodes) : nodes[i].id = NoId
DuplicateId(nodes) == \E i, j \in 1..Len(nodes) : i # j /\ nodes[i].id = nodes[j].id
UnknownParent(nodes) ==
  \E i \in 1..Len(nodes) : nodes[i].parent # NullParent /\ nodes[i].parent \notin InputIds(nodes)
ParentCycle(nodes) == \E i \in 1..Len(nodes) : i \in AncestorIndexes(nodes, {i}, Len(nodes))
Malformed(nodes) ==
  EmptyInput(nodes) \/ MissingId(nodes) \/ DuplicateId(nodes) \/ UnknownParent(nodes)
    \/ ParentCycle(nodes)

\* C5: tree construction fails and returns no forest when the input is empty,
\* has a node without id, a repeated id, an unknown parent or a parent cycle.
C5_MalformedInputFails ==
  Malformed(input) => (phase \in {"input", "error"} /\ roots = <<>>)
C5_Witness ==
  /\ phase = "error" /\ ParentCycle(input)
  /\ ~EmptyInput(input) /\ ~MissingId(input) /\ ~DuplicateId(input) /\ ~UnknownParent(input)

\* the forest as buildHierarchy returns it, and its first layout
FreshChildren == buildHierarchy(input).children
FreshLayout == [id \in NodeIds |-> NoLayout]
FirstLayout ==
  CASE engine = "grid" -> GridCalculateLayout(FreshLayout)
    [] engine = "aspectratio" -> AspectCalculateLayout(FreshLayout)
    [] engine = "flowgrid" -> FlowCalculateLayout(FreshLayout)
    [] engine = "packing" -> PackingCalculateLayout(FreshLayout)
    [] engine = "treemap" -> TreemapCalculateLayout([L |-> FreshLayout, ch |-> FreshChildren]).L
XYWH(l) == [x |-> l.x, y |-> l.y, width |-> l.width, height |-> l.height]
BoxesOf(L) == [id \in DOMAIN L |-> XYWH(L[id])]

\* C6: for the Grid, Aspect-Ratio-Grid, Flow-Grid and Packing engines a second
\* calculateLayout on the same forest gives every node the (x, y, width,
\* height) of the first call, whatever the earlier calls left on the nodes.
C6_SecondCallSameLayout ==
  (Laid /\ lastOp = "layout" /\ engine \in {"grid", "aspectratio", "flowgrid", "packing"}) =>
    BoxesOf(layout) = BoxesOf(FirstLayout)
C6_Witness ==
  /\ Laid /\ lastOp = "layout" /\ calls = 2 /\ engine = "aspectratio"
  /\ \E id \in NonLeaves : \E c \in ChildrenOf(id) : ~isLeaf(c)

\* C7: the Treemap engine assigns every node the same (x, y, width, height)
\* whether the forest was freshly built or carries an earlier call's layout.
C7_TreemapOverwritesPriorLayout ==
  (Laid /\ lastOp = "layout" /\ engine = "treemap") =>
    BoxesOf(layout) = BoxesOf(FirstLayout)

\* C8: for every engine the dimensions returned by getDiagramDimensions are at
\* least x + width and y + height of every node, read after the call.
C8_DimensionsCoverNodes ==
  (lastOp = "dims") =>
    \A id \in NodeIds :
      IF engine = "treemap"
      THEN QLe(right(layout[id]), dims.width) /\ QLe(bottom(layout[id]), dims.height)
      ELSE /\ layout[id].x + layout[id].width <= dims.width
           /\ layout[id].y + layout[id].height <= dims.height
C8_Witness ==
  /\ lastOp = "dims" /\ engine = "grid" /\ opts.padding > 0 /\ Len(roots) >= 2
  /\ \E id \in NonLeaves : TRUE

GridFamily == {"grid", "aspectratio", "flowgrid", "permutation"}

\* C9: after calculateLayout every node is at least minNodeWidth wide and
\* minNodeHeight high, except the width of a leaf of a grid-family engine when
\* leafNodeWidth is set.
C9_MinimumNodeSize ==
  Laid =>
    \A id \in NodeIds :
      IF engine = "treemap"
      THEN /\ QLe(QInt(opts.minNodeWidth), layout[id].width)
           /\ QLe(QInt(opts.minNodeHeight), layout[id].height)
      ELSE /\ \/ layout[id].width >= opts.minNodeWidth
              \/ isLeaf(id) /\ engine \in GridFamily /\ opts.leafNodeWidth > 0
           /\ layout[id].height >= opts.minNodeHeight

\* C10: for every node laid out by the Grid, Aspect-Ratio-Grid or Flow-Grid
\* engine, contentArea has non-negative width and height and lies inside the
\* node's own box.
C10_ContentAreaInsideBox ==
  (Laid /\ engine \in {"grid", "aspectratio", "flowgrid"}) =>
    \A id \in NodeIds :
      /\ layout[id].contentArea.width >= 0
      /\ layout[id].contentArea.height >= 0
      /\ Inside(layout[id].contentArea, layout[id])

\* C11: after calculateLayout of the Packing engine every node's contentArea is
\* in the coordinate space of the node's x, y: it starts at or after the
\* node's corner and lies inside the node's box, wherever the node is placed.
C11_PackingContentAreaGlobal ==
  (Laid /\ engine = "packing") =>
    \A id \in NodeIds :
      /\ layout[id].contentArea.x >= layout[id].x
      /\ layout[id].contentArea.y >= layout[id].y
      /\ Inside(layout[id].contentArea, layout[id])

\* the deviation of layout a from the target aspect ratio is strictly smaller
\* than that of layout b
deviationLess(a, b) ==
  DiffNum(a.width, a.height, permTargetAspectRatio) * b.height
    < DiffNum(b.width, b.height, permTargetAspectRatio) * a.height

Solved(e) == phase = "solved" /\ engine = e

\* no ordering of the given sizes, laid out on a grid of any of the column
\* counts cols, deviates strictly less than the solution of findBestLayout
NoCloserLayout(cols) ==
  \A perm \in Range(generatePermutations(Len(given))) :
    \A c \in cols :
      ~deviationLess(gridLayoutFor([i \in 1..Len(given) |-> given[perm[i]]], c),
                     solution.layout)

IsReordering(a, b) ==
  /\ Len(a) = Len(b)
  /\ \A e \in Range(a) \cup Range(b) :
       Cardinality({i \in 1..Len(a) : a[i] = e}) = Cardinality({i \in 1..Len(b) : b[i] = e})

AboveThresholdLaid ==
  /\ Laid /\ engine = "permutation" /\ calls = 2
  /\ \E id \in NodeIds : Len(children[id]) > opts.maxPermutationChildren

\* the first layout of the forest by a Permutation engine whose cache is empty
ColdLayout ==
  PermutationCalculateLayout(
    [L |-> FreshLayout, ch |-> FreshChildren, sc |-> <<>>, lc |-> <<>>])

ContractColumnWidths(list, numCols) ==
  [c \in 1..numCols |->
     MaxOfSet({list[i].width : i \in {j \in 1..Len(list) : (j - 1) % numCols = c - 1}})]
ContractRowHeights(list, numCols) ==
  [r \in 1..CeilDiv(Len(list), numCols) |->
     MaxOfSet({list[i].height : i \in {j \in 1..Len(list) : (j - 1) \div numCols = r - 1}})]
ContractArrangement(list, numCols) ==
  [columns |-> numCols,
   columnWidths |-> ContractColumnWidths(list, numCols),
   rowHeights |-> ContractRowHeights(list, numCols),
   totalWidth |-> SumSeq(ContractColumnWidths(list, numCols)) + (numCols - 1) * opts.spacing,
   totalHeight |-> SumSeq(ContractRowHeights(list, numCols))
                     + (CeilDiv(Len(list), numCols) - 1) * opts.spacing]

\* |totalWidth / totalHeight - target| of a is less than, or equal to, that of b
RatioCloser(a, b) ==
  DiffNum(a.totalWidth, a.totalHeight, opts.targetAspectRatio) * b.totalHeight
    < DiffNum(b.totalWidth, b.totalHeight, opts.targetAspectRatio) * a.totalHeight
RatioAsClose(a, b) ==
  DiffNum(a.totalWidth, a.totalHeight, opts.targetAspectRatio) * b.totalHeight
    = DiffNum(b.totalWidth, b.totalHeight, opts.targetAspectRatio) * a.totalHeight

\* the column counts whose grid has a ratio at all
RatedColumnCounts(list) ==
  {c \in 1..Len(list) : ContractArrangement(list, c).totalHeight > 0}

GridSolved == Solved("aspectratio") \/ Solved("flowgrid")

\* C15: for a non-empty item list the solver of the Aspect Ratio and Flow Grid
\* engines returns the grid of the contract for one column count c, no column
\* count is closer to the target ratio than c, and every smaller column count
\* is farther from it.
C15_SmallestBestColumnCount ==
  (GridSolved /\ Len(given) >= 1 /\ RatedColumnCounts(given) # {}) =>
    /\ solution.columns \in RatedColumnCounts(given)
    /\ solution = ContractArrangement(given, solution.columns)
    /\ \A c \in RatedColumnCounts(given) :
         /\ ~RatioCloser(ContractArrangement(given, c), solution)
         /\ c < solution.columns => ~RatioAsClose(ContractArrangement(given, c), solution)

\* four items of one size were handed to a grid solver with target ratio 1
FourIdenticalItems ==
  /\ GridSolved
  /\ Len(given) = 4
  /\ \A i \in 2..4 : given[i] = given[1]
  /\ given[1].width > 0 /\ given[1].height > 0
  /\ opts.targetAspectRatio = [num |-> 1, den |-> 1]

FourSquareItems ==
  /\ FourIdenticalItems
  /\ given[1].width = given[1].height
  /\ engine = "flowgrid" =>
        given[1].width >= opts.minNodeWidth /\ given[1].height >= opts.minNodeHeight

SolverFloor == IF engine = "flowgrid" THEN MinFloor ELSE NoFloor
Candidates == {arrangementOf(given, c, SolverFloor) : c \in 1..Len(given)}
RatedCandidates == {a \in Candidates : a.totalHeight # 0}

\* C17: the grid solver never rates a grid of total height 0 and always
\* returns numbers: no items give zero columns, empty widths and heights and
\* zero totals; a candidate of total height 0 is never the one returned while
\* some candidate has a ratio; and when none has, the grid of ceil(sqrt(n))
\* columns is returned with its totals.
C17_NoDivisionByZero ==
  GridSolved =>
    /\ Len(given) = 0 =>
          solution = [columns |-> 0, columnWidths |-> <<>>, rowHeights |-> <<>>,
                      totalWidth |-> 0, totalHeight |-> 0]
    /\ RatedCandidates # {} => solution \in RatedCandidates
    /\ (Len(given) >= 1 /\ RatedCandidates = {}) =>
          /\ solution = arrangementOf(given, CeilSqrt(Len(given)), SolverFloor)
          /\ solution.totalWidth \in Nat /\ solution.totalHeight \in Nat
    /\ solution.columns \in Nat
    /\ \A c \in DOMAIN solution.columnWidths : solution.columnWidths[c] \in Nat
    /\ \A r \in DOMAIN solution.rowHeights : solution.rowHeights[r] \in Nat

\* four items without height and without gaps: no candidate has a ratio, and
\* the solver fell back to 2 columns
C17_Witness ==
  /\ GridSolved
  /\ Len(given) = 4
  /\ RatedCandidates = {}
  /\ solution.columns = 2 /\ solution.totalHeight = 0

\* the cell of the k-th child of a node in the Grid engine's fixed grid, and
\* the widths and heights of the columns and rows as the children's boxes
\* give them
ColumnOf(k) == (k - 1) % opts.columns
RowOf(k) == (k - 1) \div opts.columns
ColumnWidthAt(id, c) ==
  MaxOfSet({layout[children[id][k]].width : k \in {j \in 1..Len(children[id]) : ColumnOf(j) = c}})
RowHeightAt(id, r) ==
  MaxOfSet({layout[children[id][k]].height : k \in {j \in 1..Len(children[id]) : RowOf(j) = r}})
RECURSIVE ColumnsBefore(_, _), RowsBefore(_, _)
ColumnsBefore(id, c) ==
  IF c = 0 THEN 0 ELSE ColumnsBefore(id, c - 1) + ColumnWidthAt(id, c - 1) + opts.spacing
RowsBefore(id, r) ==
  IF r = 0 THEN 0 ELSE RowsBefore(id, r - 1) + RowHeightAt(id, r - 1) + opts.spacing

\* C18: in the Grid engine the child in row r and column c of a node is at
\* contentArea.x plus the widths of the columns before c, each with one
\* spacing, and at contentArea.y plus the heights of the rows before r, each
\* with one spacing; the two short-named leaves of a single root, under
\* padding 10, spacing 5, minimum size 50 x 20 and 2 columns, are both 50 wide,
\* the first at contentArea.x, the second at contentArea.x + 55, at one y.
C18_GridCellPositions ==
  (Laid /\ engine = "grid") =>
    /\ \A id \in NonLeaves : \A k \in 1..Len(children[id]) :
         /\ layout[children[id][k]].x
              = layout[id].contentArea.x + ColumnsBefore(id, ColumnOf(k))
         /\ layout[children[id][k]].y
              = layout[id].contentArea.y + RowsBefore(id, RowOf(k))
    /\ (input = TwoLeavesInput /\ opts = TwoLeavesOptions) =>
         /\ layout[2].width = 50 /\ layout[3].width = 50
         /\ layout[2].x = layout[1].contentArea.x
         /\ layout[3].x = layout[1].contentArea.x + 50 + 5
         /\ layout[2].y = layout[3].y

\* the root with the two short-named leaves was laid out by the Grid engine
C18_Witness ==
  Laid /\ engine = "grid" /\ input = TwoLeavesInput /\ opts = TwoLeavesOptions

\* the total width and height of the grid a node's children are arranged in:
\* the fixed grid of the Grid engine, the solver's grid in the other two
ContentSizeOf(id) ==
  LET sizes == [k \in 1..Len(children[id]) |->
                  [width |-> layout[children[id][k]].width,
                   height |-> layout[children[id][k]].height]]
      totals(a) == [width |-> a.totalWidth, height |-> a.totalHeight]
  IN CASE engine = "grid" ->
            [width |-> ColumnsBefore(id, opts.columns) - opts.spacing,
             height |-> RowsBefore(id, CeilDiv(Len(children[id]), opts.columns)) - opts.spacing]
       [] engine = "aspectratio" ->
            totals(findBestGridArrangement(sizes, opts.targetAspectRatio))
       [] engine = "flowgrid" ->
            totals(flowFindBestGridArrangement(sizes, opts.targetAspectRatio))

\* the size the contract gives a non-leaf: title and content between paddings
ContractWidth(id) ==
  Max(ContentSizeOf(id).width + 2 * opts.padding,
      Max(titleMetrics(id).width + 2 * opts.padding, opts.minNodeWidth))
ContractHeight(id) ==
  Max(titleMetrics(id).height + opts.padding + ContentSizeOf(id).height + opts.padding,
      opts.minNodeHeight)

\* C19: in the Grid, Aspect Ratio and Flow Grid engines a non-leaf is
\* max(contentWidth + 2 padding, titleWidth + 2 padding, minNodeWidth) wide and
\* max(titleHeight + padding + contentHeight + padding, minNodeHeight) high,
\* the title's size being the measured size of its text.
C19_NonLeafSize ==
  (Laid /\ engine \in {"grid", "aspectratio", "flowgrid"}) =>
    \A id \in NonLeaves :
      /\ layout[id].width = ContractWidth(id)
      /\ layout[id].height = ContractHeight(id)

\* the layoutType handed to createLayoutEngine is, in lower case, the name
Names(type) ==
  phase = "constructed" /\ given.layoutType # <<>> /\ toLowerCase(given.layoutType) = type

\* C20: createLayoutEngine reads layoutType without regard to case: "grid"
\* gives the Grid engine, "aspectratio" the Aspect Ratio engine, "flowgrid" the
\* Flow Grid engine, "permutation" the Permutation engine, "packing" the
\* Packing engine, "treemap" the Treemap engine, and any other value a warning
\* and the Grid engine.
C20_EngineByLayoutType ==
  LET grid == <<"g", "r", "i", "d">>
      aspectratio == <<"a", "s", "p", "e", "c", "t", "r", "a", "t", "i", "o">>
      flowgrid == <<"f", "l", "o", "w", "g", "r", "i", "d">>
      permutation == <<"p", "e", "r", "m", "u", "t", "a", "t", "i", "o", "n">>
      packing == <<"p", "a", "c", "k", "i", "n", "g">>
      treemap == <<"t", "r", "e", "e", "m", "a", "p">>
  IN /\ Names(grid) => engine = "grid"
     /\ Names(aspectratio) => engine = "aspectratio"
     /\ Names(flowgrid) => engine = "flowgrid"
     /\ Names(permutation) => engine = "permutation"
     /\ Names(packing) => engine = "packing"
     /\ Names(treemap) => engine = "treemap"
     /\ (phase = "constructed" /\ given.layoutType # <<>>
           /\ toLowerCase(given.layoutType)
                 \notin {grid, aspectratio, flowgrid, permutation, packing, treemap})
          => (engine = "grid" /\ solution.warned)

\* the root of the tree that contains node id: the end of its parent links
RECURSIVE RootOf(_, _, _)
RootOf(nodes, id, steps) ==
  IF steps = 0 \/ nodeMapParent(nodes, id) = NullParent THEN id
  ELSE RootOf(nodes, nodeMapParent(nodes, id), steps - 1)

\* C21: after buildHierarchy every node's rootAncestor is the id of the root
\* of the tree that contains it, for every well-formed input, in whatever
\* order the nodes are listed (a child may precede its parent).
C21_RootAncestorIsTreeRoot ==
  (phase \in {"built", "laid"} /\ ~Malformed(input)) =>
    \A id \in NodeIds : rootAncestor[id] = RootOf(input, id, Len(input))

\* C22: buildHierarchy succeeds on every well-formed input (unique ids, known
\* parents, no parent cycle, not empty), in whatever order the nodes are
\* listed; it fails only when the input is malformed.
C22_WellFormedInputBuilds ==
  (lastOp = "build" /\ ~Malformed(input)) => phase = "built"

\* the box of a laid out node as a rectangle
BoxOf(id) == Rect(layout[id].x, layout[id].y, layout[id].width, layout[id].height)

\* C23: after the Permutation engine's calculateLayout on a forest of any
\* number of roots every node's box lies within its parent's box, so a root
\* moved to its horizontal slot takes its descendants with it.
C23_PermutationChildInsideParent ==
  (Laid /\ engine = "permutation") =>
    \A id \in NonLeaves : \A c \in ChildrenOf(id) : Inside(layout[c], BoxOf(id))

\* C24: calculateLayout of every engine other than the Permutation engine
\* (Grid, Aspect Ratio, Flow Grid, Packing, Treemap) leaves every node's
\* children as they were: the same nodes in the same order.
C24_ChildrenOrderKept ==
  [][(lastOp' = "layout" /\ engine # "permutation") => children' = children]_vars

QInsideBox(box, r) ==
  /\ QLe(r.x, box.x) /\ QLe(r.y, box.y)
  /\ QLe(right(box), right(r)) /\ QLe(bottom(box), bottom(r))

\* C26: after the Treemap engine's calculateLayout every child's box lies
\* within its parent's box, at every depth, also where the child's own box was
\* grown again around its children after the parent's box had been fixed.
C26_TreemapChildInsideParent ==
  (Laid /\ engine = "treemap") =>
    \A id \in NonLeaves : \A c \in ChildrenOf(id) : QInsideBox(layout[c], layout[id])

\* two boxes of exact fractions share interior points
QOverlap(a, b) ==
  /\ QLt(a.x, right(b)) /\ QLt(b.x, right(a))
  /\ QLt(a.y, bottom(b)) /\ QLt(b.y, bottom(a))

\* C27: after the Treemap engine's calculateLayout the boxes of two children
\* of one parent do not overlap, also where children were raised to the
\* minimum node size and scaled down by the overflow correction.
C27_TreemapNoSiblingOverlap ==
  (Laid /\ engine = "treemap") =>
    \A id \in NonLeaves : \A c, d \in ChildrenOf(id) :
      c # d => ~QOverlap(layout[c], layout[d])

\* the layout the Aspect Ratio engine gives the same forest under the same
\* options
AspectLayoutOfForest == AspectCalculateLayout(FreshLayout)

\* C28: constructed with the same options, the Flow Grid engine and the Aspect
\* Ratio engine give every node of a forest the same width, height and x;
\* they differ only in the y of children, which the Flow Grid engine centres
\* in the content area.
C28_FlowGridMatchesAspectRatio ==
  (Laid /\ engine = "flowgrid") =>
    \A id \in NodeIds :
      /\ layout[id].width = AspectLayoutOfForest[id].width
      /\ layout[id].height = AspectLayoutOfForest[id].height
      /\ layout[id].x = AspectLayoutOfForest[id].x

\* the grids the Packing solver rates, and a pair of them that meets the
\* tolerance of the extra branch: the later one is no closer to the target
\* than the earlier one, and their distances differ by less than 0.1
PackingCandidate(c) == arrangementOf(given, c, NoFloor)
ToleratedPair(c1, c2) ==
  /\ c1 < c2
  /\ PackingCandidate(c1).totalHeight # 0 /\ PackingCandidate(c2).totalHeight # 0
  /\ ~closerThanBest(PackingCandidate(c2), PackingCandidate(c1), opts.targetAspectRatio)
  /\ withinTolerance(PackingCandidate(c2), PackingCandidate(c1), opts.targetAspectRatio)

\* C29: for every item list, target ratio and spacing findBestPackingArrangement
\* of the Packing engine returns the column count, columnWidths, rowHeights
\* and totals that findBestGridArrangement of the Aspect Ratio engine
\* returns; the tolerance branch never changes the result.
C29_PackingSolverMatchesAspectRatio ==
  /\ Solved("packing") => solution = findBestGridArrangement(given, opts.targetAspectRatio)
  /\ Solved("aspectratio") => solution = findBestPackingArrangement(given, opts.targetAspectRatio)

\* the Packing solver returned a grid although a grid of more columns was
\* within the tolerance of it
C29_Witness ==
  /\ Solved("packing")
  /\ \E c \in 1..Len(given) : solution.columns < c /\ ToleratedPair(solution.columns, c)

\* C30: getDiagramDimensions of every engine is a pure query: it leaves every
\* node's layout (x, y, width, height, contentArea) as it was, and a call that
\* follows another one returns the same width and height.
C30_DimensionsPureQuery ==
  [][(lastOp' = "dims") =>
       /\ layout' = layout
       /\ (lastOp = "dims" => dims' = dims)]_vars

====
